---- MODULE IndexExtractProofs ----
(***************************************************************************)
(* Proofs of two components that share nothing but this module: the        *)
(* databases, their copies and the index, for any number of repositories,  *)
(* of checks and of commands over a prefix; and one archive unpacked, for  *)
(* any archive, root, rollback, faults and strangers.                      *)
(***************************************************************************)
EXTENDS Index, Extract, SequenceTheorems, FiniteSetTheorems, WellFoundedInduction, TLAPS

-----------------------------------------------------------------------------
(* The databases and the index (Index).                                    *)

RepoOf(r) == Config[r.k]
PathOf(r) == <<r.dir, RepoOf(r)>>
Hand(r) == r.pc \in {"load", "parse"}     \* a reader with a file in hand
Sys(n) == place[<<"system", n>>]
Usr(n) == place[<<"user", n>>]
SysContent(n) == IF Sys(n) = 0 THEN 0 ELSE file[Sys(n)].content

\* The shelf: no two states of a file have one time; a file has one path; and
\* the user's copy, if it is not the older, holds what is not older.
FileOK(f) == /\ DOMAIN f = {"content", "at", "whole", "sound"}
             /\ f.content \in Nat /\ f.at \in 0..clock
FilesOK == /\ clock \in 0..MaxClock
           /\ DOMAIN place = Paths /\ \A d \in Paths : place[d] \in 0..clock
           /\ DOMAIN file = Inodes /\ \A i \in Inodes : FileOK(file[i])
OneTime ==
    /\ \A d \in Paths : place[d] # 0 => file[place[d]].at # 0
    /\ \A i, j \in Inodes : file[i].at = file[j].at /\ file[i].at # 0 => i = j
OnePath == \A d, e \in Paths : place[d] = place[e] /\ place[d] # 0 => d = e
Ages ==
    \A n \in Repos : Sys(n) # 0 =>
        /\ file[Sys(n)].content = file[Sys(n)].at
        /\ Usr(n) # 0 /\ file[Usr(n)].sound /\ file[Usr(n)].at >= file[Sys(n)].at
           => file[Usr(n)].content >= file[Sys(n)].content
ShelfOK == FilesOK /\ OneTime /\ OnePath /\ Ages

\* The index: an entry with the time of a file is of its content.
EntryOK(e) ==
    /\ e.stamp[1] \in 1..clock /\ e.content \in Nat /\ e.build \in 1..exe
    /\ e.exe = e.build \/ (e.exe = 0 /\ e.build < exe)
    /\ \A i \in Inodes : e.stamp[1] = file[i].at => e.content = file[i].content
IndexOK == /\ exe \in Nat \ {0} /\ DOMAIN entry = Paths
           /\ \A d \in Paths : entry[d] # None => EntryOK(entry[d])

\* A reader, as it runs.
ReaderOK(r) ==
    /\ DOMAIN r = {"pc", "dir", "k", "build", "ino", "saw", "stood", "got", "base"}
    /\ r.pc \in {"look", "load", "open", "parse", "prefer", "done"}
    /\ r.dir \in {"system", "user"} /\ r.k \in 1..Len(Config) /\ r.build \in 1..exe
    /\ DOMAIN r.base = Repos /\ \A n \in Repos : r.base[n] \in 0..clock

\* How new the copies it may still read are.
BaseOK(r) ==
    \A n \in Repos :
        /\ r.base[n] <= SysContent(n)
        /\ r.dir = "user" => /\ Usr(n) = 0 => r.base[n] = 0
                             /\ Usr(n) # 0 /\ file[Usr(n)].sound => r.base[n] <= file[Usr(n)].content

\* What it may find of the file in its hand: what it looked at or has met since.
Met(r, c) == \E f \in r.stood : c = f.content
GripOK(r) ==
    Hand(r) =>
        /\ r.ino \in 1..clock /\ FileOK(r.saw) /\ r.saw.at # 0
        /\ file[r.ino] \in r.stood /\ \A f \in r.stood : f.content \in Nat
        /\ \A j \in Inodes : file[j].at = r.saw.at => j = r.ino
        /\ \A d \in Paths : place[d] = r.ino => d = PathOf(r)
        /\ \A d \in Paths : entry[d] # None /\ entry[d].stamp[1] = r.saw.at => Met(r, entry[d].content)
        /\ \A f \in r.stood : f.sound => r.base[RepoOf(r)] <= f.content

\* What its last answer was.
AnswerOK(r) ==
    r.got # None =>
        /\ \E f \in r.got.stood : r.got.content = f.content
        /\ r.got.repo \in Repos /\ r.got.content \in Nat /\ r.got.build \in Nat
        /\ r.got.build = r.build \/ (r.got.build < exe /\ r.build < exe)
        /\ (\A f \in r.got.stood : f.sound) => r.base[r.got.repo] <= r.got.content
FitsReader(r) == ReaderOK(r) /\ BaseOK(r) /\ GripOK(r) /\ AnswerOK(r)

\* A command over a prefix, as it runs.
FitsSeeder(r) ==
    /\ DOMAIN r = {"pc", "dir", "k", "src", "ino"}
    /\ r.pc \in {"seed", "copy", "copying"} /\ r.dir = "user" /\ r.k \in 1..Len(Config)
    /\ r.pc = "copying" => /\ r.ino \in 1..clock /\ r.src \in 1..clock
                           /\ \A d \in Paths : place[d] = r.ino => d = PathOf(r)

\* Two that run: one time is one file, and one file one path.
Agree(r, s) == Hand(r) /\ Hand(s) /\ r.saw.at = s.saw.at => r.ino = s.ino
SamePath(r, s) == r.pc = "copying" /\ Hand(s) /\ r.ino = s.ino => PathOf(r) = PathOf(s)
Runs(S) == {p \in S : run[p] # None}
RunsOK == /\ DOMAIN run = Procs
          /\ \A q \in Runs(Readers) : FitsReader(run[q])
          /\ \A p \in Runs(Seeders) : FitsSeeder(run[p])
PairsOK == /\ \A p, q \in Runs(Readers) : Agree(run[p], run[q])
           /\ \A p \in Runs(Seeders), q \in Runs(Readers) : SamePath(run[p], run[q])

Inv == ShelfOK /\ IndexOK /\ RunsOK /\ PairsOK

-----------------------------------------------------------------------------
(* A repository of the configuration, its path, and what the invariant says. *)

LEMMA Configured == ASSUME NEW k \in 1..Len(Config) PROVE Config[k] \in Repos
BY IndexAssumption DEF Repos

LEMMA OnPaths ==
    ASSUME NEW n \in Repos PROVE <<"system", n>> \in Paths /\ <<"user", n>> \in Paths
BY DEF Paths

LEMMA InitOK == Init => Inv
<1>. SUFFICES ASSUME Init PROVE Inv
     OBVIOUS
<1>. USE IndexAssumption, OnPaths DEF Init
<1>1. FilesOK
      BY DEF FilesOK, FileOK, Blank
<1>2. OneTime /\ OnePath /\ Ages
      BY DEF OneTime, OnePath, Ages, Sys, Blank
<1>3. IndexOK
      BY DEF IndexOK
<1>4. RunsOK /\ PairsOK
      BY DEF RunsOK, PairsOK, Runs, Procs
<1>. QED BY <1>1, <1>2, <1>3, <1>4 DEF Inv, ShelfOK

\* What the invariant says of what a command read, and of how new it is.
LEMMA InvReads == Inv => ReadsWhatStood /\ NeverOlder
<1>. SUFFICES ASSUME Inv, NEW p \in Answered
              PROVE  /\ \E f \in run[p].got.stood : run[p].got.content = f.content
                     /\ run[p].got.build = run[p].build \/ (run[p].got.build < exe /\ run[p].build < exe)
                     /\ (\A f \in run[p].got.stood : f.sound)
                        => run[p].got.content >= run[p].base[run[p].got.repo]
     BY DEF ReadsWhatStood, NeverOlder
<1>1. p \in Runs(Readers) /\ run[p].got # None
      BY DEF Answered, Runs
<1>2. FitsReader(run[p])
      BY <1>1 DEF Inv, RunsOK
<1>3. run[p].got.content \in Nat /\ run[p].base[run[p].got.repo] \in Nat
      BY <1>1, <1>2 DEF FitsReader, ReaderOK, AnswerOK, Inv, ShelfOK, FilesOK
<1>. QED BY <1>1, <1>2, <1>3 DEF FitsReader, AnswerOK

-----------------------------------------------------------------------------
(* Steps of one process that write nothing *)

\* A file just looked at is in hand as it should be.
Fresh(r) == /\ r.ino = place[PathOf(r)] /\ r.ino # 0
            /\ r.saw = file[r.ino] /\ r.stood = {file[r.ino]}

LEMMA FreshGrip ==
    ASSUME ShelfOK, IndexOK, NEW r, ReaderOK(r), BaseOK(r), Fresh(r)
    PROVE  GripOK(r)
<1>1. PathOf(r) \in Paths /\ RepoOf(r) \in Repos
      BY Configured DEF ReaderOK, PathOf, RepoOf, Paths
<1>2. r.ino \in 1..clock /\ r.ino \in Inodes
      BY <1>1, IndexAssumption DEF Fresh, ShelfOK, FilesOK, Inodes
<1>3. FileOK(r.saw) /\ r.saw.at # 0 /\ \A f \in r.stood : f.content \in Nat
      BY <1>1, <1>2 DEF Fresh, ShelfOK, FilesOK, OneTime, FileOK
<1>4. file[r.ino] \in r.stood
      BY DEF Fresh
<1>5. \A j \in Inodes : file[j].at = r.saw.at => j = r.ino
      BY <1>2, <1>3 DEF Fresh, ShelfOK, OneTime
<1>6. \A d \in Paths : place[d] = r.ino => d = PathOf(r)
      BY <1>1 DEF Fresh, ShelfOK, OnePath
<1>7. \A d \in Paths : entry[d] # None /\ entry[d].stamp[1] = r.saw.at => Met(r, entry[d].content)
      BY <1>2 DEF Fresh, IndexOK, EntryOK, Met
<1>8. \A f \in r.stood : f.sound => r.base[RepoOf(r)] <= f.content
  <2>1. CASE r.dir = "system"
        BY <1>1, <2>1 DEF Fresh, BaseOK, SysContent, Sys, PathOf
  <2>2. CASE r.dir = "user"
        BY <1>1, <2>2 DEF Fresh, BaseOK, Usr, PathOf
  <2>. QED BY <2>1, <2>2 DEF ReaderOK
<1>. QED BY <1>2, <1>3, <1>4, <1>5, <1>6, <1>7, <1>8 DEF GripOK

\* What a reader or a command over a prefix has depends on nothing that stays as it is.
LEMMA Still ==
    ASSUME NEW r, UNCHANGED <<place, file, entry, exe, clock>>
    PROVE  (FitsReader(r) => FitsReader(r)') /\ (FitsSeeder(r) => FitsSeeder(r)')
<1>1. ReaderOK(r) => ReaderOK(r)'
      BY DEF ReaderOK
<1>2. BaseOK(r) => BaseOK(r)'
      BY DEF BaseOK, SysContent, Sys, Usr
<1>3. GripOK(r) => GripOK(r)'
      BY DEF GripOK, FileOK, Hand, Met, PathOf, RepoOf
<1>4. AnswerOK(r) => AnswerOK(r)'
      BY DEF AnswerOK
<1>5. FitsSeeder(r) => FitsSeeder(r)'
      BY DEF FitsSeeder, PathOf, RepoOf
<1>. QED BY <1>1, <1>2, <1>3, <1>4, <1>5 DEF FitsReader

\* A reader's step.
LEMMA ReaderSteps ==
    ASSUME Inv, NEW p \in Readers, NEW x, run' = [run EXCEPT ![p] = x],
           UNCHANGED <<place, file, entry, exe, clock>>,
           x = None \/ (ReaderOK(x) /\ BaseOK(x) /\ AnswerOK(x) /\ (Hand(x) => Fresh(x)))
    PROVE  Inv'
<1>. USE DEF Inv
<1>1. ShelfOK' /\ IndexOK'
      BY DEF ShelfOK, FilesOK, FileOK, OneTime, OnePath, Ages, Sys, Usr, IndexOK, EntryOK
<1>2. /\ p \in Procs /\ Readers \subseteq Procs /\ Seeders \subseteq Procs /\ p \notin Seeders
      /\ DOMAIN run' = Procs /\ run'[p] = x
      /\ \A q \in Procs : q # p => run'[q] = run[q]
      BY IndexAssumption DEF RunsOK, Procs
<1>3. Runs(Seeders)' = Runs(Seeders) /\ Runs(Readers)' \subseteq Runs(Readers) \cup {p}
      BY <1>2 DEF Runs
<1>4. ASSUME p \in Runs(Readers)' PROVE FitsReader(x) /\ (Hand(x) => Fresh(x))
  <2>1. x # None
        BY <1>2, <1>4 DEF Runs
  <2>2. Hand(x) => GripOK(x)
        BY <2>1, FreshGrip
  <2>. QED BY <2>1, <2>2 DEF FitsReader, GripOK
<1>5. \A q \in Runs(Readers)' : FitsReader(run'[q])
      BY <1>2, <1>3, <1>4 DEF RunsOK
<1>6. RunsOK'
  <2>1. \A q \in Runs(Readers)' : FitsReader(run[q])'
        BY <1>5, Still
  <2>2. \A q \in Runs(Seeders)' : FitsSeeder(run[q])'
        BY <1>2, <1>3 DEF RunsOK, Runs, FitsSeeder, PathOf, RepoOf
  <2>. QED BY <1>2, <2>1, <2>2 DEF RunsOK
<1>7. ASSUME NEW q \in Runs(Readers), q # p, FitsReader(x), Hand(x) => Fresh(x)
      PROVE  Agree(x, run[q]) /\ Agree(run[q], x)
  <2>1. PathOf(x) \in Paths /\ FitsReader(run[q])
        BY <1>7, Configured DEF RunsOK, FitsReader, ReaderOK, PathOf, RepoOf, Paths
  <2>2. Hand(x) => x.ino \in Inodes /\ x.saw = file[x.ino]
        BY <1>7, <2>1, IndexAssumption DEF Fresh, ShelfOK, FilesOK, Inodes
  <2>. QED BY <2>1, <2>2 DEF FitsReader, GripOK, Agree
<1>8. ASSUME NEW q \in Runs(Seeders), FitsReader(x), Hand(x) => Fresh(x)
      PROVE  SamePath(run[q], x)
  <2>1. PathOf(x) \in Paths /\ FitsSeeder(run[q])
        BY <1>8, Configured DEF RunsOK, FitsReader, ReaderOK, PathOf, RepoOf, Paths
  <2>. QED BY <1>8, <2>1 DEF FitsSeeder, SamePath, Fresh
<1>9. PairsOK'
  <2>1. \A q \in Runs(Readers)' : q # p => q \in Runs(Readers) /\ run'[q] = run[q]
        BY <1>2, <1>3 DEF Runs
  <2>2. \A q \in Runs(Seeders)' : q # p /\ q \in Runs(Seeders) /\ run'[q] = run[q]
        BY <1>2, <1>3 DEF Runs
  <2>3. \A q, s \in Runs(Readers)' : Agree(run'[q], run'[s])
    <3>. SUFFICES ASSUME NEW q \in Runs(Readers)', NEW s \in Runs(Readers)' PROVE Agree(run'[q], run'[s])
         OBVIOUS
    <3>1. CASE q # p /\ s # p
          BY <3>1, <2>1 DEF PairsOK
    <3>2. CASE q = p /\ s # p
          BY <3>2, <1>2, <1>4, <1>7, <2>1
    <3>3. CASE q # p /\ s = p
          BY <3>3, <1>2, <1>4, <1>7, <2>1
    <3>4. CASE q = p /\ s = p
          BY <3>4 DEF Agree
    <3>. QED BY <3>1, <3>2, <3>3, <3>4
  <2>4. \A q \in Runs(Seeders)', s \in Runs(Readers)' : SamePath(run'[q], run'[s])
    <3>. SUFFICES ASSUME NEW q \in Runs(Seeders)', NEW s \in Runs(Readers)' PROVE SamePath(run'[q], run'[s])
         OBVIOUS
    <3>1. CASE s # p
          BY <3>1, <2>1, <2>2 DEF PairsOK
    <3>2. CASE s = p
          BY <3>2, <1>2, <1>4, <1>8, <2>2
    <3>. QED BY <3>1, <3>2
  <2>. QED BY <2>3, <2>4 DEF PairsOK, Agree, SamePath, Hand, PathOf, RepoOf
<1>. QED BY <1>1, <1>6, <1>9

\* A step of a command over a prefix.
LEMMA SeederSteps ==
    ASSUME Inv, NEW p \in Seeders, NEW x, run' = [run EXCEPT ![p] = x],
           UNCHANGED <<place, file, entry, exe, clock>>,
           x = None \/ (FitsSeeder(x) /\ x.pc # "copying")
    PROVE  Inv'
<1>. USE DEF Inv
<1>1. ShelfOK' /\ IndexOK'
      BY DEF ShelfOK, FilesOK, FileOK, OneTime, OnePath, Ages, Sys, Usr, IndexOK, EntryOK
<1>2. /\ p \in Procs /\ Readers \subseteq Procs /\ Seeders \subseteq Procs /\ p \notin Readers
      /\ DOMAIN run' = Procs /\ run'[p] = x
      /\ \A q \in Procs : q # p => run'[q] = run[q]
      BY IndexAssumption DEF RunsOK, Procs
<1>3. Runs(Readers)' = Runs(Readers) /\ Runs(Seeders)' \subseteq Runs(Seeders) \cup {p}
      BY <1>2 DEF Runs
<1>4. \A q \in Runs(Readers)' : q \in Runs(Readers) /\ run'[q] = run[q]
      BY <1>2, <1>3 DEF Runs
<1>5. \A q \in Runs(Seeders)' : IF q = p THEN FitsSeeder(x) /\ x.pc # "copying"
                                ELSE q \in Runs(Seeders) /\ run'[q] = run[q]
      BY <1>2, <1>3 DEF Runs
<1>6. RunsOK'
  <2>1. \A q \in Runs(Readers)' : FitsReader(run[q])'
        BY <1>4 DEF RunsOK, FitsReader, ReaderOK, BaseOK, GripOK, AnswerOK, FileOK, SysContent, Sys, Usr, Hand, Met, PathOf, RepoOf
  <2>2. \A q \in Runs(Seeders)' : FitsSeeder(run'[q])
        BY <1>2, <1>5 DEF RunsOK
  <2>3. \A q \in Runs(Seeders)' : FitsSeeder(run[q])'
        BY <2>2 DEF FitsSeeder, PathOf, RepoOf
  <2>. QED BY <1>2, <2>1, <2>3 DEF RunsOK
<1>7. PairsOK'
  <2>1. \A q, s \in Runs(Readers)' : Agree(run'[q], run'[s])
        BY <1>4 DEF PairsOK
  <2>2. \A q \in Runs(Seeders)', s \in Runs(Readers)' : SamePath(run'[q], run'[s])
    <3>. SUFFICES ASSUME NEW q \in Runs(Seeders)', NEW s \in Runs(Readers)' PROVE SamePath(run'[q], run'[s])
         OBVIOUS
    <3>1. CASE q # p
          BY <3>1, <1>4, <1>5 DEF PairsOK
    <3>2. CASE q = p
          BY <3>2, <1>2, <1>5 DEF SamePath
    <3>. QED BY <3>1, <3>2
  <2>. QED BY <2>1, <2>2 DEF PairsOK, Agree, SamePath, Hand, PathOf, RepoOf
<1>. QED BY <1>1, <1>6, <1>7

-----------------------------------------------------------------------------
(* The actions of a process that write nothing *)

\* The process of an action is a reader or a seeder by what it is at.
LEMMA WhoIsAt ==
    ASSUME Inv, NEW p \in Procs, run[p] # None
    PROVE  /\ p \in Readers => FitsReader(run[p]) /\ run[p].pc \notin {"seed", "copy", "copying"}
           /\ p \in Seeders => FitsSeeder(run[p]) /\ run[p].pc \in {"seed", "copy", "copying"}
BY DEF Inv, RunsOK, Runs, FitsReader, ReaderOK, FitsSeeder

LEMMA StartKeeps == ASSUME Inv, NEW p \in Procs, Start(p) PROVE Inv'
<1>. DEFINE x == [pc |-> "look", dir |-> "system", k |-> 1, build |-> exe,
                  ino |-> 0, saw |-> Blank, stood |-> {}, got |-> None,
                  base |-> [r \in Repos |-> Held(<<"system", r>>).content]]
<1>1. p \in Readers /\ run' = [run EXCEPT ![p] = x] /\ UNCHANGED <<place, file, entry, exe, clock>>
      BY DEF Start
<1>2. /\ \A d \in Paths : place[d] \in 0..clock /\ (place[d] # 0 => place[d] \in Inodes)
      /\ \A i \in Inodes : file[i].content \in Nat /\ file[i].at \in 0..clock
      /\ exe \in 1..exe /\ clock \in Nat /\ 1 \in 1..Len(Config)
      BY IndexAssumption DEF Inv, ShelfOK, FilesOK, FileOK, IndexOK, Inodes
<1>3. \A n \in Repos : Held(<<"system", n>>).content = SysContent(n) /\ SysContent(n) \in 0..clock
      BY <1>2, OnPaths DEF Held, SysContent, Sys, Blank, Inv, ShelfOK, Ages
<1>4. ReaderOK(x)
      BY <1>2, <1>3 DEF ReaderOK
<1>5. BaseOK(x) /\ AnswerOK(x) /\ ~Hand(x)
      BY <1>3 DEF BaseOK, AnswerOK, Hand
<1>. HIDE DEF x
<1>. QED BY <1>1, <1>4, <1>5, ReaderSteps

LEMMA StartPrefixKeeps == ASSUME Inv, NEW p \in Procs, StartPrefix(p) PROVE Inv'
<1>. DEFINE x == [pc |-> "seed", dir |-> "user", k |-> 1, src |-> 0, ino |-> 0]
<1>1. p \in Seeders /\ run' = [run EXCEPT ![p] = x] /\ UNCHANGED <<place, file, entry, exe, clock>>
      BY DEF StartPrefix
<1>2. FitsSeeder(x) /\ x.pc # "copying"
      BY IndexAssumption DEF FitsSeeder
<1>. HIDE DEF x
<1>. QED BY <1>1, <1>2, SeederSteps

LEMMA EndKeeps == ASSUME Inv, NEW p \in Procs, End(p) PROVE Inv'
<1>1. run' = [run EXCEPT ![p] = None] /\ UNCHANGED <<place, file, entry, exe, clock>>
      BY DEF End
<1>. QED BY <1>1, ReaderSteps, SeederSteps DEF Procs

\* The next repository, and the end of the configuration.
LEMMA SeededFits ==
    ASSUME NEW p \in Seeders, FitsSeeder(run[p])
    PROVE  Seeded(p) = None \/ (FitsSeeder(Seeded(p)) /\ Seeded(p).pc # "copying")
BY DEF Seeded, FitsSeeder

LEMMA SeedCheckKeeps == ASSUME Inv, NEW p \in Procs, SeedCheck(p) PROVE Inv'
<1>1. p \in Seeders /\ FitsSeeder(run[p]) /\ UNCHANGED <<place, file, entry, exe, clock>>
      BY WhoIsAt DEF SeedCheck, At, Procs
<1>2. CASE run' = [run EXCEPT ![p] = Seeded(p)]
      BY <1>1, <1>2, SeededFits, SeederSteps
<1>3. CASE run' = [run EXCEPT ![p] = [run[p] EXCEPT !.pc = "copy"]]
  <2>. DEFINE x == [run[p] EXCEPT !.pc = "copy"]
  <2>1. FitsSeeder(x) /\ x.pc # "copying"
        BY <1>1 DEF FitsSeeder
  <2>2. run' = [run EXCEPT ![p] = x]
        BY <1>3
  <2>. HIDE DEF x
  <2>. QED BY <1>1, <2>1, <2>2, SeederSteps
<1>. QED BY <1>2, <1>3 DEF SeedCheck

LEMMA SeedFailsKeeps == ASSUME Inv, NEW p \in Procs, SeedFails(p) PROVE Inv'
<1>1. p \in Seeders
      BY WhoIsAt DEF SeedFails, At, Procs
<1>. QED BY <1>1, SeederSteps DEF SeedFails

LEMMA LookKeeps == ASSUME Inv, NEW p \in Procs, Look(p) PROVE Inv'
<1>1. p \in Readers /\ FitsReader(run[p]) /\ UNCHANGED <<place, file, entry, exe, clock>>
      BY WhoIsAt DEF Look, At, Procs
<1>. DEFINE x == [run[p] EXCEPT !.pc = IF place[Path(p)] = 0 THEN "open" ELSE "load", !.got = None,
                     !.ino = place[Path(p)], !.saw = Held(Path(p)), !.stood = {Held(Path(p))}]
<1>2. run' = [run EXCEPT ![p] = x]
      BY DEF Look
<1>3. ReaderOK(x) /\ BaseOK(x) /\ AnswerOK(x)
      BY <1>1 DEF FitsReader, ReaderOK, BaseOK, AnswerOK
<1>4. Hand(x) => Fresh(x)
      BY <1>1 DEF FitsReader, ReaderOK, Hand, Fresh, Held, Path, PathOf, Repo, RepoOf
<1>. HIDE DEF x
<1>. QED BY <1>1, <1>2, <1>3, <1>4, ReaderSteps

\* A repository is read: the answer has to be one the invariant allows.
Allowed(r, g) ==
    /\ \E f \in g.stood : g.content = f.content
    /\ g.repo \in Repos /\ g.content \in Nat /\ g.build \in Nat
    /\ g.build = r.build \/ (g.build < exe /\ r.build < exe)
    /\ (\A f \in g.stood : f.sound) => r.base[g.repo] <= g.content
Onward(r, g) ==
    LET s == [r EXCEPT !.got = g, !.ino = 0, !.saw = Blank, !.stood = {}]
    IN  IF s.k < Len(Config) THEN [s EXCEPT !.k = @ + 1, !.pc = "look"]
        ELSE [s EXCEPT !.k = 1, !.pc = IF s.dir = "system" THEN "prefer" ELSE "done"]
LEMMA AnswerFits ==
    ASSUME NEW r, FitsReader(r), NEW g, Allowed(r, g)
    PROVE  /\ ReaderOK(Onward(r, g)) /\ BaseOK(Onward(r, g)) /\ AnswerOK(Onward(r, g))
           /\ ~Hand(Onward(r, g))
<1>. DEFINE s == [r EXCEPT !.got = g, !.ino = 0, !.saw = Blank, !.stood = {}]
<1>1. CASE r.k < Len(Config)
  <2>1. Onward(r, g) = [s EXCEPT !.k = @ + 1, !.pc = "look"]
        BY <1>1 DEF Onward, FitsReader, ReaderOK
  <2>. QED BY <1>1, <2>1 DEF FitsReader, ReaderOK, BaseOK, AnswerOK, Allowed, Hand
<1>2. CASE ~(r.k < Len(Config))
  <2>1. Onward(r, g) = [s EXCEPT !.k = 1, !.pc = IF r.dir = "system" THEN "prefer" ELSE "done"]
        BY <1>2 DEF Onward, FitsReader, ReaderOK
  <2>. QED BY <1>2, <2>1, IndexAssumption DEF FitsReader, ReaderOK, BaseOK, AnswerOK, Allowed, Hand
<1>. QED BY <1>1, <1>2

LEMMA AnswerStep ==
    ASSUME NEW p \in Procs, NEW g, Answer(p, g) PROVE run' = [run EXCEPT ![p] = Onward(run[p], g)]
BY DEF Answer, Onward

LEMMA AnswerKeeps ==
    ASSUME Inv, NEW p \in Readers, FitsReader(run[p]), NEW g, Allowed(run[p], g), Answer(p, g),
           UNCHANGED <<place, file, entry, exe, clock>>
    PROVE  Inv'
<1>. DEFINE x == Onward(run[p], g)
<1>1. run' = [run EXCEPT ![p] = x]
      BY AnswerStep DEF Procs
<1>2. ReaderOK(x) /\ BaseOK(x) /\ AnswerOK(x) /\ ~Hand(x)
      BY AnswerFits
<1>. HIDE DEF x
<1>. QED BY <1>1, <1>2, ReaderSteps

\* The stamp of a build that stands is its number, and of another none.
LEMMA SameBuild ==
    ASSUME NEW p \in Procs, FitsReader(run[p]), NEW e, EntryOK(e), e.exe = ExeStamp(p), exe \in Nat \ {0}
    PROVE  e.build \in Nat /\ (e.build = run[p].build \/ (e.build < exe /\ run[p].build < exe))
BY DEF FitsReader, ReaderOK, EntryOK, ExeStamp

LEMMA LoadKeeps == ASSUME Inv, NEW p \in Procs, Load(p) PROVE Inv'
<1>1. /\ p \in Readers /\ FitsReader(run[p]) /\ Hand(run[p])
      /\ UNCHANGED <<place, file, entry, exe, clock>>
      BY WhoIsAt DEF Load, At, Procs, Hand
<1>. DEFINE e == entry[Path(p)]
            g == Read(p, e.content, e.build, run[p].stood)
<1>2. CASE Describes(e, ExeStamp(p), run[p].saw)
  <2>1. Path(p) \in Paths /\ Repo(p) \in Repos /\ RepoOf(run[p]) = Repo(p)
        BY <1>1, Configured DEF FitsReader, ReaderOK, Path, Repo, Paths, RepoOf
  <2>2. e # None /\ EntryOK(e) /\ e.exe = ExeStamp(p) /\ e.stamp[1] = run[p].saw.at /\ exe \in Nat \ {0}
        BY <1>2, <2>1 DEF Describes, Stamp, Inv, IndexOK
  <2>3. Met(run[p], e.content)
        BY <1>1, <2>1, <2>2 DEF FitsReader, GripOK
  <2>4. e.content \in Nat /\ e.build \in Nat /\ (e.build = run[p].build \/ (e.build < exe /\ run[p].build < exe))
        BY <1>1, <2>2, SameBuild DEF EntryOK
  <2>5. (\A f \in run[p].stood : f.sound) => run[p].base[Repo(p)] <= e.content
        BY <1>1, <2>1, <2>3 DEF FitsReader, GripOK, Met
  <2>6. Allowed(run[p], g)
        BY <2>1, <2>3, <2>4, <2>5 DEF Allowed, Read, Met
  <2>7. Answer(p, g)
        BY <1>2 DEF Load
  <2>. HIDE DEF g
  <2>. QED BY <1>1, <2>6, <2>7, AnswerKeeps
<1>3. CASE run' = [run EXCEPT ![p].pc = "open"]
  <2>. DEFINE x == [run[p] EXCEPT !.pc = "open"]
  <2>1. run' = [run EXCEPT ![p] = x]
        BY <1>3
  <2>2. ReaderOK(x) /\ BaseOK(x) /\ AnswerOK(x) /\ ~Hand(x)
        BY <1>1 DEF FitsReader, ReaderOK, BaseOK, AnswerOK, Hand
  <2>. HIDE DEF x
  <2>. QED BY <1>1, <2>1, <2>2, ReaderSteps
<1>. QED BY <1>2, <1>3 DEF Load

LEMMA OpenKeeps == ASSUME Inv, NEW p \in Procs, Open(p) PROVE Inv'
<1>1. /\ p \in Readers /\ FitsReader(run[p])
      /\ UNCHANGED <<place, file, entry, exe, clock>>
      BY WhoIsAt DEF Open, At, Procs
<1>2. Path(p) \in Paths /\ Repo(p) \in Repos /\ RepoOf(run[p]) = Repo(p) /\ Path(p) = PathOf(run[p])
      BY <1>1, Configured DEF FitsReader, ReaderOK, Path, Repo, Paths, RepoOf, PathOf
<1>3. CASE place[Path(p)] = 0 /\ Answer(p, Nothing(p, TRUE))
  <2>1. run[p].base[Repo(p)] = 0
    <3>1. CASE run[p].dir = "system"
          BY <1>1, <1>2, <1>3, <3>1 DEF FitsReader, ReaderOK, BaseOK, SysContent, Sys, Path
    <3>2. CASE run[p].dir = "user"
          BY <1>1, <1>2, <1>3, <3>2 DEF FitsReader, BaseOK, Usr, Path
    <3>. QED BY <1>1, <3>1, <3>2 DEF FitsReader, ReaderOK
  <2>2. Allowed(run[p], Nothing(p, TRUE))
        BY <1>1, <1>2, <2>1 DEF Allowed, Nothing, Read, Blank, FitsReader, ReaderOK
  <2>. QED BY <1>1, <1>3, <2>2, AnswerKeeps
<1>4. CASE place[Path(p)] # 0
  <2>. DEFINE x == [run[p] EXCEPT !.pc = "parse", !.ino = place[Path(p)],
                                  !.saw = Held(Path(p)), !.stood = {Held(Path(p))}]
  <2>1. run' = [run EXCEPT ![p] = x]
        BY <1>4 DEF Open
  <2>2. ReaderOK(x) /\ BaseOK(x) /\ AnswerOK(x)
        BY <1>1 DEF FitsReader, ReaderOK, BaseOK, AnswerOK
  <2>3. Fresh(x)
        BY <1>1, <1>2, <1>4 DEF FitsReader, ReaderOK, Fresh, Held, PathOf, RepoOf
  <2>. HIDE DEF x
  <2>. QED BY <1>1, <2>1, <2>2, <2>3, ReaderSteps
<1>. QED BY <1>3, <1>4 DEF Open

LEMMA PreferKeeps == ASSUME Inv, NEW p \in Procs, PreferFresherCopy(p) PROVE Inv'
<1>1. /\ p \in Readers /\ FitsReader(run[p]) /\ run[p].pc = "prefer"
      /\ UNCHANGED <<place, file, entry, exe, clock>>
      BY WhoIsAt DEF PreferFresherCopy, At, Procs
<1>2. CASE run' = [run EXCEPT ![p] = None]
      BY <1>1, <1>2, ReaderSteps
<1>3. CASE /\ UserCopyIsFresher(Repos)
           /\ run' = [run EXCEPT ![p] = [run[p] EXCEPT !.dir = "user", !.pc = "look", !.got = None]]
  <2>. DEFINE x == [run[p] EXCEPT !.dir = "user", !.pc = "look", !.got = None]
  <2>1. run' = [run EXCEPT ![p] = x]
        BY <1>3
  <2>2. ReaderOK(x) /\ AnswerOK(x) /\ ~Hand(x)
        BY <1>1 DEF FitsReader, ReaderOK, AnswerOK, Hand
  <2>3. ASSUME NEW n \in Repos
        PROVE  Usr(n) # 0 /\ (file[Usr(n)].sound => run[p].base[n] <= file[Usr(n)].content)
    <3>1. Usr(n) # 0 /\ file[Usr(n)].at >= Held(<<"system", n>>).at
          BY <1>3 DEF UserCopyIsFresher, Usr, Held
    <3>2. /\ run[p].base[n] <= SysContent(n) /\ run[p].base[n] \in Nat
          /\ file[Usr(n)].content \in Nat /\ (Sys(n) # 0 => file[Sys(n)].content \in Nat)
      <4>1. Usr(n) \in Inodes /\ Sys(n) \in 0..clock /\ (Sys(n) # 0 => Sys(n) \in Inodes)
            BY <3>1, OnPaths, IndexAssumption DEF Inv, ShelfOK, FilesOK, Usr, Sys, Inodes
      <4>. QED BY <1>1, <4>1, IndexAssumption DEF FitsReader, BaseOK, ReaderOK, Inv, ShelfOK, FilesOK, FileOK
    <3>3. CASE Sys(n) = 0
          BY <3>1, <3>2, <3>3 DEF SysContent
    <3>4. CASE Sys(n) # 0
          BY <3>1, <3>2, <3>4 DEF SysContent, Inv, ShelfOK, Ages, Held, Sys
    <3>. QED BY <3>3, <3>4
  <2>4. BaseOK(x)
        BY <1>1, <2>3 DEF FitsReader, ReaderOK, BaseOK
  <2>. HIDE DEF x
  <2>. QED BY <1>1, <2>1, <2>2, <2>4, ReaderSteps
<1>. QED BY <1>2, <1>3 DEF PreferFresherCopy

-----------------------------------------------------------------------------
(* Steps that write a file: f goes into inode i, which has or gets path d, or
   has lost it to another since it was opened. *)

Writes(d, i, f) ==
    /\ clock < MaxClock /\ clock' = clock + 1
    /\ file' = [file EXCEPT ![i] = f]
    /\ place' = place \/ (place' = [place EXCEPT ![d] = i] /\ (i = clock + 1 \/ place[d] = i))
    /\ UNCHANGED <<entry, exe>>
Meant(d, i, f) ==
    /\ d \in Paths /\ i \in 1..(clock + 1) /\ \A e \in Paths : place[e] = i => e = d
    /\ DOMAIN f = {"content", "at", "whole", "sound"} /\ f.content \in Nat /\ f.at = clock + 1
    /\ d[1] = "system" => i = clock + 1 /\ f.content = clock + 1
    /\ f.sound => f.content >= SysContent(d[2])
    /\ \A q \in Runs(Readers) : Hand(run[q]) /\ run[q].ino = i => PathOf(run[q]) = d

\* What stands where after it: f at i, whatever has i; and the rest as it was.
After(d, i, f) ==
    /\ clock \in Nat /\ clock' = clock + 1 /\ clock' <= MaxClock /\ i \in Inodes /\ i # 0
    /\ DOMAIN file' = Inodes /\ file'[i] = f
    /\ \A j \in Inodes : j # i => file'[j] = file[j]
    /\ \A j \in Inodes : FileOK(file[j]) /\ file[j].at \in 0..clock /\ file[j].content \in Nat
    /\ DOMAIN place' = Paths
    /\ \A e \in Paths : place'[e] = i => e = d
    /\ \A e \in Paths : place'[e] # i => place'[e] = place[e]
    /\ \A e \in Paths : place'[e] \in 0..(clock + 1) /\ place[e] \in 0..clock
    /\ \A e \in Paths : place[e] # 0 => place'[e] # 0 /\ place[e] \in Inodes
    /\ \A e \in Paths : place'[e] # 0 => place'[e] \in Inodes
    /\ \A j \in 1..clock, e \in Paths : place'[e] = j => place[e] = j
    /\ \A j \in 1..clock : j \in Inodes
LEMMA AfterWrite ==
    ASSUME ShelfOK, NEW d, NEW i, NEW f, Meant(d, i, f), Writes(d, i, f)
    PROVE  After(d, i, f)
<1>. USE IndexAssumption
<1>1. /\ clock \in Nat /\ clock' = clock + 1 /\ clock' <= MaxClock /\ i \in Inodes /\ i # 0
      /\ i \in 1..(clock + 1) /\ \A j \in 1..clock : j \in Inodes
      BY DEF Meant, Writes, ShelfOK, FilesOK, Inodes
<1>2. /\ DOMAIN file' = Inodes /\ file'[i] = f
      /\ \A j \in Inodes : j # i => file'[j] = file[j]
      BY <1>1 DEF Writes, ShelfOK, FilesOK
<1>3. \A j \in Inodes : FileOK(file[j]) /\ file[j].at \in 0..clock /\ file[j].content \in Nat
      BY DEF ShelfOK, FilesOK, FileOK
<1>4. DOMAIN place = Paths /\ \A e \in Paths : place[e] \in 0..clock
      BY DEF ShelfOK, FilesOK
<1>5. /\ DOMAIN place' = Paths
      /\ \A e \in Paths : place'[e] = IF e = d /\ place' # place THEN i ELSE place[e]
      /\ place' # place => i = clock + 1 \/ place[d] = i
      BY <1>4 DEF Writes, Meant
<1>6. \A e \in Paths : place[e] = i => e = d
      BY DEF Meant
<1>7. /\ \A e \in Paths : place'[e] = i => e = d
      /\ \A e \in Paths : place'[e] # i => place'[e] = place[e]
      BY <1>5, <1>6
<1>8. \A e \in Paths : place'[e] \in 0..(clock + 1) /\ place[e] \in 0..clock
      BY <1>1, <1>4, <1>5
<1>9. \A e \in Paths : place[e] # 0 => place'[e] # 0 /\ place[e] \in Inodes
      BY <1>1, <1>4, <1>5
<1>10. \A e \in Paths : place'[e] # 0 => place'[e] \in Inodes
      BY <1>1, <1>4, <1>5
<1>11. \A j \in 1..clock, e \in Paths : place'[e] = j => place[e] = j
      BY <1>1, <1>5
<1>. QED BY ONLY <1>1, <1>2, <1>3, <1>5, <1>7, <1>8, <1>9, <1>10, <1>11, Zenon DEF After

\* The same of the two copies of a repository.
LEMMA CopiesAfter ==
    ASSUME ShelfOK, NEW d, NEW i, NEW f, Meant(d, i, f), Writes(d, i, f), NEW n \in Repos
    PROVE  /\ SysContent(n) \in Nat
           /\ Sys(n)' = i => d = <<"system", n>> /\ f.content = clock + 1
           /\ Sys(n)' # i => Sys(n)' = Sys(n) /\ (Sys(n) # 0 => file'[Sys(n)] = file[Sys(n)])
           /\ Usr(n)' = i => d = <<"user", n>> /\ (f.sound => f.content >= SysContent(n))
           /\ Usr(n)' # i => Usr(n)' = Usr(n) /\ (Usr(n) # 0 => file'[Usr(n)] = file[Usr(n)])
           /\ Usr(n)' = 0 => Usr(n) = 0
           /\ Usr(n) # 0 => file[Usr(n)].at \in 0..clock
<1>. After(d, i, f)
     BY AfterWrite
<1>1. <<"system", n>>[1] = "system" /\ <<"user", n>>[2] = n
      OBVIOUS
<1>2. SysContent(n) \in Nat
      BY OnPaths DEF After, SysContent, Sys
<1>3. Sys(n)' = i => d = <<"system", n>> /\ f.content = clock + 1
      BY <1>1, OnPaths DEF After, Sys, Meant
<1>4. Sys(n)' # i => Sys(n)' = Sys(n) /\ (Sys(n) # 0 => file'[Sys(n)] = file[Sys(n)])
      BY OnPaths DEF After, Sys
<1>5. Usr(n)' = i => d = <<"user", n>> /\ (f.sound => f.content >= SysContent(n))
  <2>1. Usr(n)' = i => d = <<"user", n>>
        BY OnPaths DEF After, Usr
  <2>. QED BY <1>1, <2>1 DEF Meant
<1>6. Usr(n)' # i => Usr(n)' = Usr(n) /\ (Usr(n) # 0 => file'[Usr(n)] = file[Usr(n)])
      BY OnPaths DEF After, Usr
<1>7. (Usr(n)' = 0 => Usr(n) = 0) /\ (Usr(n) # 0 => file[Usr(n)].at \in 0..clock)
      BY OnPaths DEF After, Usr
<1>. QED BY <1>2, <1>3, <1>4, <1>5, <1>6, <1>7

LEMMA WriteShelf ==
    ASSUME ShelfOK, IndexOK, NEW d, NEW i, NEW f, Meant(d, i, f), Writes(d, i, f)
    PROVE  ShelfOK' /\ IndexOK'
<1>. After(d, i, f)
     BY AfterWrite
<1>. USE DEF After
<1>1. FilesOK'
  <2>1. FileOK(f)'
        BY DEF FileOK, Meant
  <2>2. \A j \in Inodes : FileOK(file[j])'
        BY <2>1 DEF FileOK
  <2>. QED BY <2>2, IndexAssumption DEF FilesOK, Inodes, Paths
<1>2. OneTime'
  <2>1. \A e \in Paths : place'[e] # 0 => file'[place'[e]].at # 0
        BY DEF ShelfOK, OneTime, Meant
  <2>2. \A j, k \in Inodes : file'[j].at = file'[k].at /\ file'[j].at # 0 => j = k
        BY DEF ShelfOK, OneTime, Meant
  <2>. QED BY <2>1, <2>2 DEF OneTime, Inodes
<1>3. OnePath'
  <2>1. \A e, g \in Paths : place'[e] = place'[g] /\ place'[e] # 0 => e = g
        BY DEF ShelfOK, OnePath
  <2>. QED BY <2>1 DEF OnePath, Paths
<1>4. Ages'
  <2>. SUFFICES ASSUME NEW n \in Repos, Sys(n)' # 0
                PROVE  /\ file'[Sys(n)'].content = file'[Sys(n)'].at
                       /\ Usr(n)' # 0 /\ file'[Usr(n)'].sound /\ file'[Usr(n)'].at >= file'[Sys(n)'].at
                          => file'[Usr(n)'].content >= file'[Sys(n)'].content
       BY DEF Ages
  <2>1. CASE Sys(n)' = i
    <3>1. f.content = clock + 1 /\ f.at = clock + 1
          BY <2>1, CopiesAfter DEF Meant
    <3>2. Usr(n)' # i
          BY <2>1, CopiesAfter
    <3>3. Usr(n)' # 0 => file'[Usr(n)'].at \in 0..clock
          BY <3>2, CopiesAfter
    <3>. QED BY <2>1, <3>1, <3>3
  <2>2. CASE Sys(n)' # i
    <3>1. Sys(n)' = Sys(n) /\ Sys(n) # 0 /\ file'[Sys(n)] = file[Sys(n)]
          BY <2>2, CopiesAfter
    <3>2. CASE Usr(n)' = i
          BY <3>1, <3>2, CopiesAfter DEF ShelfOK, Ages, SysContent
    <3>3. CASE Usr(n)' # i
          BY <3>1, <3>3, CopiesAfter DEF ShelfOK, Ages
    <3>. QED BY <3>2, <3>3
  <2>. QED BY <2>1, <2>2
<1>5. IndexOK'
  <2>1. ASSUME NEW e \in Paths, entry[e] # None PROVE EntryOK(entry[e])'
    <3>1. entry' = entry /\ exe' = exe /\ EntryOK(entry[e])
          BY <2>1 DEF Writes, IndexOK
    <3>2. \A j \in Inodes : entry[e].stamp[1] = file'[j].at => entry[e].content = file'[j].content
          BY <3>1 DEF EntryOK, Meant
    <3>. QED BY <3>1, <3>2 DEF EntryOK, Inodes
  <2>. QED BY <2>1 DEF IndexOK, Writes, Paths
<1>. QED BY <1>1, <1>2, <1>3, <1>4, <1>5 DEF ShelfOK

\* What a reader meets: f, if it has the file in hand.
Meeting(r, y, i, f) ==
    \/ y = r /\ ~(Hand(r) /\ r.ino = i)
    \/ y = [r EXCEPT !.stood = @ \cup {f}] /\ r.ino = i
LEMMA MeetingFits ==
    ASSUME ShelfOK, IndexOK, NEW d, NEW i, NEW f, Meant(d, i, f), Writes(d, i, f),
           NEW r, FitsReader(r), Hand(r) /\ r.ino = i => PathOf(r) = d,
           NEW y, Meeting(r, y, i, f)
    PROVE  FitsReader(y)'
<1>. After(d, i, f)
     BY AfterWrite
<1>. USE DEF After
<1>1. /\ DOMAIN y = DOMAIN r /\ \A a \in DOMAIN r : a # "stood" => y[a] = r[a]
      /\ Hand(r) /\ r.ino = i => y.stood = r.stood \cup {f}
      /\ ~(Hand(r) /\ r.ino = i) => ~Hand(r) \/ y.stood = r.stood
      BY DEF Meeting, FitsReader, ReaderOK
<1>2. /\ y.pc = r.pc /\ y.dir = r.dir /\ y.k = r.k /\ y.build = r.build /\ y.ino = r.ino
      /\ y.saw = r.saw /\ y.got = r.got /\ y.base = r.base
      /\ DOMAIN y = {"pc", "dir", "k", "build", "ino", "saw", "stood", "got", "base"}
      BY <1>1 DEF FitsReader, ReaderOK
<1>3. ReaderOK(y)'
      BY <1>2 DEF FitsReader, ReaderOK, Writes
<1>4. BaseOK(y)'
  <2>. SUFFICES ASSUME NEW n \in Repos
                PROVE  /\ r.base[n] <= SysContent(n)'
                       /\ r.dir = "user" =>
                            /\ Usr(n)' = 0 => r.base[n] = 0
                            /\ Usr(n)' # 0 /\ file'[Usr(n)'].sound => r.base[n] <= file'[Usr(n)'].content
       BY <1>2 DEF BaseOK, Repos
  <2>1. r.base[n] <= SysContent(n) /\ r.base[n] \in 0..clock
        BY DEF FitsReader, ReaderOK, BaseOK
  <2>2. r.base[n] <= SysContent(n)'
    <3>1. CASE Sys(n)' = i
          BY <2>1, <3>1, CopiesAfter DEF SysContent
    <3>2. CASE Sys(n)' # i
          BY <2>1, <3>2, CopiesAfter DEF SysContent
    <3>. QED BY <3>1, <3>2
  <2>3. r.dir = "user" /\ Usr(n)' = 0 => r.base[n] = 0
        BY CopiesAfter DEF FitsReader, BaseOK
  <2>4. r.dir = "user" /\ Usr(n)' # 0 /\ file'[Usr(n)'].sound => r.base[n] <= file'[Usr(n)'].content
    <3>1. CASE Usr(n)' = i
          BY <2>1, <3>1, CopiesAfter DEF Meant
    <3>2. CASE Usr(n)' # i
          BY <3>2, CopiesAfter DEF FitsReader, BaseOK
    <3>. QED BY <3>1, <3>2
  <2>. QED BY <2>2, <2>3, <2>4
<1>5. GripOK(y)'
  <2>. SUFFICES ASSUME Hand(r)
                PROVE  /\ r.ino \in 1..clock' /\ FileOK(r.saw)' /\ r.saw.at # 0
                       /\ file'[r.ino] \in y.stood /\ \A g \in y.stood : g.content \in Nat
                       /\ \A j \in Inodes : file'[j].at = r.saw.at => j = r.ino
                       /\ \A e \in Paths : place'[e] = r.ino => e = PathOf(r)
                       /\ \A e \in Paths : entry'[e] # None /\ entry'[e].stamp[1] = r.saw.at
                                           => \E g \in y.stood : entry'[e].content = g.content
                       /\ \A g \in y.stood : g.sound => r.base[RepoOf(r)] <= g.content
       BY <1>2 DEF GripOK, Hand, Met, PathOf, RepoOf, Inodes, Paths
  <2>1. /\ r.ino \in 1..clock /\ FileOK(r.saw) /\ r.saw.at # 0 /\ r.saw.at \in 0..clock
        /\ file[r.ino] \in r.stood /\ \A g \in r.stood : g.content \in Nat
        /\ \A j \in Inodes : file[j].at = r.saw.at => j = r.ino
        BY DEF FitsReader, GripOK, FileOK
  <2>2. r.stood \subseteq y.stood /\ y.stood \subseteq r.stood \cup {f}
        BY <1>1
  <2>3. FileOK(r.saw)'
        BY <2>1 DEF FileOK
  <2>4. file'[r.ino] \in y.stood
        BY <1>1, <2>1
  <2>5. \A g \in y.stood : g.content \in Nat
        BY <2>1, <2>2 DEF Meant
  <2>6. \A j \in Inodes : file'[j].at = r.saw.at => j = r.ino
        BY <2>1 DEF Meant
  <2>7. \A e \in Paths : place'[e] = r.ino => e = PathOf(r)
        BY <2>1 DEF FitsReader, GripOK
  <2>8. \A e \in Paths : entry'[e] # None /\ entry'[e].stamp[1] = r.saw.at
                         => \E g \in y.stood : entry'[e].content = g.content
        BY <2>2 DEF FitsReader, GripOK, Met, Writes
  <2>9. \A g \in r.stood : g.sound => r.base[RepoOf(r)] <= g.content
        BY DEF FitsReader, GripOK
  <2>10. r.ino = i /\ f.sound => r.base[RepoOf(r)] <= f.content
    <3>1. r.ino = i => d[2] = RepoOf(r) /\ RepoOf(r) \in Repos
          BY Configured DEF PathOf, RepoOf, FitsReader, ReaderOK
    <3>2. r.ino = i => /\ r.base[RepoOf(r)] <= SysContent(RepoOf(r))
                       /\ r.base[RepoOf(r)] \in Nat /\ SysContent(RepoOf(r)) \in Nat
          BY <3>1, CopiesAfter DEF FitsReader, ReaderOK, BaseOK
    <3>. QED BY <3>1, <3>2 DEF Meant
  <2>. QED BY <1>1, <2>1, <2>3, <2>4, <2>5, <2>6, <2>7, <2>8, <2>9, <2>10
<1>6. AnswerOK(y)'
      BY <1>2 DEF FitsReader, AnswerOK, Writes
<1>. QED BY <1>3, <1>4, <1>5, <1>6 DEF FitsReader

\* The invariant after a write, if a command over a prefix does no more than go
\* on to a step where it is not copying, or is copying into i.
LEMMA WriteKeeps ==
    ASSUME Inv, NEW d, NEW i, NEW f, Meant(d, i, f), Writes(d, i, f), DOMAIN run' = Procs,
           \A q \in Readers : IF run[q] = None THEN run'[q] = None ELSE Meeting(run[q], run'[q], i, f),
           \A p \in Seeders : \/ run'[p] = run[p] \/ run'[p] = None
                              \/ /\ FitsSeeder(run[p])'
                                 /\ run'[p].pc = "copying" => run'[p].ino = i /\ PathOf(run'[p]) = d
    PROVE  Inv'
<1>. USE DEF Inv
<1>1. ShelfOK' /\ IndexOK'
      BY WriteShelf
<1>2. \A q \in Runs(Readers)' : q \in Runs(Readers) /\ Meeting(run[q], run'[q], i, f)
      BY DEF Runs
<1>3. \A q \in Runs(Readers) : FitsReader(run[q]) /\ (Hand(run[q]) /\ run[q].ino = i => PathOf(run[q]) = d)
      BY DEF RunsOK, Meant
<1>4. ASSUME NEW q \in Runs(Readers)' PROVE FitsReader(run[q])'
  <2>1. /\ Meeting(run[q], run'[q], i, f) /\ FitsReader(run[q])
        /\ Hand(run[q]) /\ run[q].ino = i => PathOf(run[q]) = d
        BY <1>2, <1>3
  <2>. QED BY <2>1, MeetingFits
<1>5. ASSUME NEW q \in Runs(Readers)'
      PROVE  /\ q \in Runs(Readers) /\ run'[q].pc = run[q].pc /\ run'[q].saw = run[q].saw
             /\ run'[q].ino = run[q].ino /\ PathOf(run'[q]) = PathOf(run[q])
  <2>1. q \in Runs(Readers) /\ ReaderOK(run[q]) /\ Meeting(run[q], run'[q], i, f)
        BY <1>2, <1>3 DEF FitsReader
  <2>. QED BY <2>1 DEF Meeting, ReaderOK, PathOf, RepoOf
<1>6. ASSUME NEW p \in Runs(Seeders)' PROVE FitsSeeder(run[p])'
  <2>1. p \in Seeders /\ run'[p] # None
        BY <1>6 DEF Runs
  <2>2. CASE run'[p] = run[p]
    <3>1. FitsSeeder(run[p])
          BY <2>1, <2>2 DEF RunsOK, Runs
    <3>2. After(d, i, f)
          BY AfterWrite
    <3>. QED BY <2>2, <3>1, <3>2 DEF FitsSeeder, After, PathOf, RepoOf, Paths
  <2>. QED BY <2>1, <2>2
<1>7. RunsOK'
      BY <1>4, <1>6 DEF RunsOK, Procs
<1>8. ASSUME NEW q \in Runs(Readers)', NEW s \in Runs(Readers)' PROVE Agree(run'[q], run'[s])
      BY <1>5 DEF PairsOK, Agree, Hand
<1>9. ASSUME NEW p \in Runs(Seeders)', NEW q \in Runs(Readers)' PROVE SamePath(run'[p], run'[q])
  <2>1. p \in Seeders /\ run'[p] # None
        BY <1>9 DEF Runs
  <2>2. CASE run'[p] = run[p]
        BY <1>5, <2>1, <2>2 DEF Runs, PairsOK, SamePath, Hand
  <2>3. CASE run'[p].pc = "copying" => run'[p].ino = i /\ PathOf(run'[p]) = d
        BY <1>3, <1>5, <2>3 DEF SamePath, Hand
  <2>. QED BY <2>1, <2>2, <2>3
<1>10. PairsOK'
  <2>1. \A q, s \in Runs(Readers)' : Agree(run'[q], run'[s])
        BY <1>8
  <2>2. \A p \in Runs(Seeders)', q \in Runs(Readers)' : SamePath(run'[p], run'[q])
        BY <1>9
  <2>. QED BY <2>1, <2>2 DEF PairsOK, Agree, SamePath, Hand, PathOf, RepoOf
<1>. QED BY <1>1, <1>7, <1>10

\* A new inode has no path, and no reader has it in hand.
LEMMA NewInode ==
    ASSUME Inv, clock < MaxClock
    PROVE  /\ clock + 1 \in 1..(clock + 1) /\ clock \in Nat /\ \A e \in Paths : place[e] # clock + 1
           /\ \A q \in Runs(Readers) : ~(Hand(run[q]) /\ run[q].ino = clock + 1)
           /\ \A n \in Repos : SysContent(n) \in 0..clock
<1>1. clock \in Nat /\ \A e \in Paths : place[e] \in 0..clock
      BY IndexAssumption DEF Inv, ShelfOK, FilesOK
<1>2. \A q \in Runs(Readers) : Hand(run[q]) => run[q].ino \in 1..clock
      BY DEF Inv, RunsOK, FitsReader, GripOK
<1>3. \A e \in Paths : place[e] # 0 => file[place[e]].at \in 0..clock
      BY <1>1, IndexAssumption DEF Inv, ShelfOK, FilesOK, FileOK, Inodes
<1>4. ASSUME NEW n \in Repos PROVE SysContent(n) \in 0..clock
  <2>1. CASE Sys(n) = 0
        BY <1>1, <2>1 DEF SysContent
  <2>2. CASE Sys(n) # 0
        BY <1>3, <2>2, OnPaths DEF Inv, ShelfOK, Ages, SysContent, Sys
  <2>. QED BY <2>1, <2>2
<1>. QED BY <1>1, <1>2, <1>4

LEMMA ArriveKeeps == ASSUME Inv, NEW d \in Paths, Arrive(d) PROVE Inv'
<1>. DEFINE f == [content |-> clock + 1, at |-> clock + 1, whole |-> TRUE, sound |-> TRUE]
            i == clock + 1
<1>1. DOMAIN run = Procs /\ run' = run /\ Writes(d, i, f)
      BY DEF Arrive, Writes, Inv, RunsOK
<1>2. d[2] \in Repos
      BY DEF Paths
<1>3. Meant(d, i, f)
      BY <1>2, NewInode DEF Meant, Arrive
<1>4. \A q \in Readers : run[q] # None => Meeting(run[q], run[q], i, f)
      BY NewInode DEF Meeting, Runs, Arrive
<1>. HIDE DEF f, i
<1>. QED BY <1>1, <1>3, <1>4, WriteKeeps

\* Who meets what is written to inode i.
LEMMA MeetsFits ==
    ASSUME Inv, NEW i, NEW f, NEW p \in Seeders, NEW x, run' = [Meets(i, f) EXCEPT ![p] = x]
    PROVE  /\ DOMAIN run' = Procs /\ run'[p] = x
           /\ \A q \in Readers : IF run[q] = None THEN run'[q] = None ELSE Meeting(run[q], run'[q], i, f)
           /\ \A q \in Seeders : q # p => run'[q] = run[q]
<1>1. p \in Procs /\ p \notin Readers /\ DOMAIN Meets(i, f) = Procs
      BY IndexAssumption DEF Procs, Meets
<1>2. \A q \in Procs : q # p => run'[q] = IF q \in Readers /\ run[q] # None /\ run[q].ino = i
                     THEN [run[q] EXCEPT !.stood = @ \cup {f}] ELSE run[q]
      BY <1>1 DEF Meets
<1>3. \A q \in Readers : IF run[q] = None THEN run'[q] = None ELSE Meeting(run[q], run'[q], i, f)
      BY <1>1, <1>2 DEF Meeting, Procs
<1>4. \A q \in Seeders : q # p => run'[q] = run[q]
      BY <1>2, IndexAssumption DEF Procs
<1>. QED BY <1>1, <1>3, <1>4

LEMMA SeedOpenKeeps == ASSUME Inv, NEW p \in Procs, SeedOpen(p) PROVE Inv'
<1>. DEFINE src == place[<<"system", Repo(p)>>]
            i == IF place[Path(p)] # 0 THEN place[Path(p)] ELSE clock + 1
            f == [content |-> 0, at |-> clock + 1, whole |-> FALSE, sound |-> FALSE]
            x == [run[p] EXCEPT !.pc = "copying", !.src = src, !.ino = i]
<1>1. /\ p \in Seeders /\ FitsSeeder(run[p]) /\ src # 0 /\ clock < MaxClock
      /\ clock' = clock + 1 /\ place' = [place EXCEPT ![Path(p)] = i]
      /\ file' = [file EXCEPT ![i] = f] /\ run' = [Meets(i, f) EXCEPT ![p] = x]
      /\ UNCHANGED <<entry, exe>>
      BY WhoIsAt DEF SeedOpen, At, Procs
<1>2. /\ Path(p) \in Paths /\ Path(p)[1] = "user" /\ Path(p)[2] = Repo(p) /\ Repo(p) \in Repos
      /\ Path(p) = PathOf(run[p]) /\ PathOf(x) = Path(p)
      BY <1>1, Configured DEF FitsSeeder, Path, Repo, Paths, PathOf, RepoOf
<1>3. clock \in Nat /\ DOMAIN place = Paths /\ \A e \in Paths : place[e] \in 0..clock
      BY IndexAssumption DEF Inv, ShelfOK, FilesOK
<1>4. Writes(Path(p), i, f)
      BY <1>1, <1>2, <1>3 DEF Writes
<1>5. i \in 1..(clock + 1) /\ src \in 1..clock
  <2>1. place[Path(p)] \in 0..clock
        BY <1>2, <1>3
  <2>2. src \in 0..clock
        BY <1>2, <1>3, OnPaths
  <2>. QED BY <1>1, <1>3, <2>1, <2>2
<1>6. \A e \in Paths : place[e] = i => e = Path(p)
      BY <1>2, <1>3 DEF Inv, ShelfOK, OnePath
<1>7. \A q \in Runs(Readers) : Hand(run[q]) /\ run[q].ino = i => PathOf(run[q]) = Path(p)
      BY <1>1, <1>2, NewInode DEF Inv, RunsOK, FitsReader, GripOK
<1>8. Meant(Path(p), i, f)
      BY <1>2, <1>3, <1>5, <1>6, <1>7 DEF Meant
<1>9. \A e \in Paths : place'[e] = i => e = Path(p)
      BY <1>1, <1>2, <1>3, <1>6
<1>10. /\ DOMAIN x = {"pc", "dir", "k", "src", "ino"} /\ x.pc = "copying" /\ x.ino = i /\ x.src = src
       /\ x.dir = "user" /\ x.k \in 1..Len(Config)
      BY <1>1 DEF FitsSeeder
<1>. HIDE DEF x, i, f, src
<1>11. /\ DOMAIN run' = Procs /\ run'[p] = x
       /\ \A q \in Readers : IF run[q] = None THEN run'[q] = None ELSE Meeting(run[q], run'[q], i, f)
       /\ \A q \in Seeders : q # p => run'[q] = run[q]
      BY <1>1, MeetsFits
<1>12. i \in 1..clock' /\ src \in 1..clock'
      BY <1>1, <1>3, <1>5
<1>13. run'[p].ino = i /\ PathOf(run'[p]) = Path(p)
      BY <1>2, <1>10, <1>11
<1>14. FitsSeeder(run[p])'
      BY <1>9, <1>10, <1>11, <1>12, <1>13 DEF FitsSeeder, Paths, PathOf, RepoOf
<1>. QED BY <1>4, <1>8, <1>11, <1>13, <1>14, WriteKeeps

LEMMA SeedDoneKeeps == ASSUME Inv, NEW p \in Procs, SeedDone(p) PROVE Inv'
<1>. DEFINE w == \A q \in Procs \ {p} : ~(At(q, "copying") /\ run[q].ino = run[p].ino)
            b == place[<<"system", Repo(p)>>] = run[p].src
            i == run[p].ino
            f == [content |-> file[run[p].src].content, at |-> clock + 1, whole |-> w, sound |-> b]
            x == Seeded(p)
<1>1. /\ p \in Seeders /\ FitsSeeder(run[p]) /\ run[p].pc = "copying" /\ clock < MaxClock
      /\ clock' = clock + 1 /\ file' = [file EXCEPT ![i] = f] /\ run' = [Meets(i, f) EXCEPT ![p] = x]
      /\ UNCHANGED <<place, entry, exe>>
      BY WhoIsAt DEF SeedDone, At, Procs
<1>2. /\ Path(p) \in Paths /\ Path(p)[1] = "user" /\ Path(p)[2] = Repo(p) /\ Repo(p) \in Repos
      /\ Path(p) = PathOf(run[p])
      BY <1>1, Configured DEF FitsSeeder, Path, Repo, Paths, PathOf, RepoOf
<1>3. /\ i \in 1..clock /\ run[p].src \in 1..clock /\ clock \in Nat
      /\ \A e \in Paths : place[e] = i => e = Path(p)
      BY <1>1, <1>2, NewInode DEF FitsSeeder
<1>4. file[run[p].src].content \in Nat
      BY <1>1, <1>3, IndexAssumption DEF Inv, ShelfOK, FilesOK, FileOK, Inodes
<1>5. b => file[run[p].src].content >= SysContent(Repo(p))
      BY <1>2, <1>3, <1>4 DEF SysContent, Sys
<1>6. \A q \in Runs(Readers) : Hand(run[q]) /\ run[q].ino = i => PathOf(run[q]) = Path(p)
  <2>1. p \in Runs(Seeders)
        BY <1>1 DEF Runs, SeedDone, At
  <2>. QED BY <1>1, <1>2, <2>1 DEF Inv, PairsOK, SamePath
<1>. HIDE DEF w, b
<1>7. /\ DOMAIN f = {"content", "at", "whole", "sound"} /\ f.content \in Nat /\ f.at = clock + 1
      /\ f.sound = b /\ f.content = file[run[p].src].content
      BY <1>4
<1>8. f.sound => f.content >= SysContent(Repo(p))
      BY <1>5, <1>7
<1>. HIDE DEF f, i
<1>9. Meant(Path(p), i, f)
      BY <1>2, <1>3, <1>6, <1>7, <1>8 DEF Meant
<1>10. Writes(Path(p), i, f)
      BY <1>1 DEF Writes
<1>11. x = None \/ (FitsSeeder(x) /\ x.pc # "copying")
      BY <1>1, SeededFits
<1>. HIDE DEF x
<1>12. /\ DOMAIN run' = Procs /\ run'[p] = x
       /\ \A q \in Readers : IF run[q] = None THEN run'[q] = None ELSE Meeting(run[q], run'[q], i, f)
       /\ \A q \in Seeders : q # p => run'[q] = run[q]
      BY <1>1, MeetsFits
<1>13. run'[p] # None => FitsSeeder(run[p])' /\ run'[p].pc # "copying"
      BY <1>11, <1>12 DEF FitsSeeder
<1>. QED BY <1>9, <1>10, <1>12, <1>13, WriteKeeps

-----------------------------------------------------------------------------
(* What is left: a database taken away, an upgrade, a power cut, and a parsed
   database that goes into the index. *)

LEMMA RefuseKeeps == ASSUME Inv, NEW d \in Paths, Refuse(d) PROVE Inv'
<1>. USE DEF Inv
<1>1. /\ place' = [place EXCEPT ![d] = 0] /\ UNCHANGED <<file, entry, exe, clock>>
      /\ run' = [p \in Procs |-> IF p \in Seeders \/ run[p] = None THEN run[p]
                                 ELSE [run[p] EXCEPT !.base[d[2]] = 0]]
      BY DEF Refuse
<1>2. /\ DOMAIN place' = Paths /\ place'[d] = 0 /\ \A e \in Paths : e # d => place'[e] = place[e]
      /\ \A e \in Paths : place[e] \in 0..clock /\ (place[e] # 0 => place[e] \in Inodes)
      /\ clock \in Nat /\ \A j \in Inodes : file[j].content \in Nat
      BY <1>1, IndexAssumption DEF ShelfOK, FilesOK, FileOK, Inodes
<1>3. ASSUME NEW n \in Repos
      PROVE  /\ Sys(n)' = Sys(n) \/ (Sys(n)' = 0 /\ d[2] = n)
             /\ Usr(n)' = Usr(n) \/ (Usr(n)' = 0 /\ d[2] = n)
             /\ SysContent(n) \in Nat
  <2>1. <<"system", n>>[2] = n /\ <<"user", n>>[2] = n
        OBVIOUS
  <2>2. Sys(n)' = Sys(n) \/ (Sys(n)' = 0 /\ d[2] = n)
        BY <1>2, <2>1, OnPaths DEF Sys
  <2>3. Usr(n)' = Usr(n) \/ (Usr(n)' = 0 /\ d[2] = n)
        BY <1>2, <2>1, OnPaths DEF Usr
  <2>4. Sys(n) # 0 => file[Sys(n)].content \in Nat
        BY <1>2, OnPaths DEF Sys
  <2>. QED BY <2>2, <2>3, <2>4 DEF SysContent
<1>4. ShelfOK' /\ IndexOK'
  <2>1. FilesOK'
        BY <1>1, <1>2 DEF ShelfOK, FilesOK, FileOK
  <2>2. OneTime' /\ OnePath'
        BY <1>1, <1>2 DEF ShelfOK, OneTime, OnePath
  <2>3. Ages'
    <3>. SUFFICES ASSUME NEW n \in Repos, Sys(n)' # 0
                  PROVE  /\ file[Sys(n)'].content = file[Sys(n)'].at
                         /\ Usr(n)' # 0 /\ file[Usr(n)'].sound /\ file[Usr(n)'].at >= file[Sys(n)'].at
                            => file[Usr(n)'].content >= file[Sys(n)'].content
         BY <1>1 DEF Ages
    <3>. QED BY <1>3 DEF ShelfOK, Ages
  <2>4. IndexOK'
        BY <1>1 DEF IndexOK, EntryOK
  <2>. QED BY <2>1, <2>2, <2>3, <2>4 DEF ShelfOK
<1>5. \A q \in Runs(Readers)' : q \in Runs(Readers) /\ run'[q] = [run[q] EXCEPT !.base[d[2]] = 0]
      BY <1>1, IndexAssumption DEF Runs, Procs
<1>6. \A q \in Runs(Seeders)' : q \in Runs(Seeders) /\ run'[q] = run[q]
      BY <1>1, IndexAssumption DEF Runs, Procs
<1>7. ASSUME NEW q \in Runs(Readers)'
      PROVE  FitsReader(run[q])' /\ q \in Runs(Readers) /\ Hand(run'[q]) = Hand(run[q])
             /\ run'[q].saw = run[q].saw /\ run'[q].ino = run[q].ino /\ PathOf(run'[q]) = PathOf(run[q])
  <2>. DEFINE r == run[q]
              y == run'[q]
  <2>1. q \in Runs(Readers) /\ FitsReader(r) /\ y = [r EXCEPT !.base[d[2]] = 0]
        BY <1>5 DEF RunsOK
  <2>2. /\ DOMAIN y = {"pc", "dir", "k", "build", "ino", "saw", "stood", "got", "base"}
        /\ y.pc = r.pc /\ y.dir = r.dir /\ y.k = r.k /\ y.build = r.build /\ y.ino = r.ino
        /\ y.saw = r.saw /\ y.stood = r.stood /\ y.got = r.got /\ y.base = [r.base EXCEPT ![d[2]] = 0]
        BY <2>1 DEF FitsReader, ReaderOK
  <2>3. DOMAIN r.base = Repos /\ \A n \in Repos : r.base[n] \in 0..clock
        BY <2>1 DEF FitsReader, ReaderOK
  <2>4. DOMAIN y.base = Repos /\ \A n \in Repos : y.base[n] = IF n = d[2] THEN 0 ELSE r.base[n]
        BY <2>2, <2>3
  <2>5. \A n \in Repos : y.base[n] \in 0..clock /\ y.base[n] <= r.base[n]
        BY <1>2, <2>3, <2>4
  <2>6. ReaderOK(r) /\ RepoOf(r) \in Repos
        BY <2>1, Configured DEF FitsReader, ReaderOK, RepoOf
  <2>7. ReaderOK(run[q])'
        BY <1>1, <2>2, <2>4, <2>5, <2>6 DEF ReaderOK, Repos
  <2>8. BaseOK(run[q])'
    <3>. SUFFICES ASSUME NEW n \in Repos
                  PROVE  /\ y.base[n] <= SysContent(n)'
                         /\ y.dir = "user" => /\ Usr(n)' = 0 => y.base[n] = 0
                                              /\ Usr(n)' # 0 /\ file[Usr(n)'].sound => y.base[n] <= file[Usr(n)'].content
         BY <1>1 DEF BaseOK, Repos
    <3>1. CASE d[2] = n
      <4>1. SysContent(n)' \in Nat
            BY <1>1, <1>3 DEF SysContent
      <4>2. Usr(n)' # 0 => file[Usr(n)'].content \in Nat
            BY <1>2, <1>3, OnPaths DEF Usr
      <4>. QED BY <2>4, <3>1, <4>1, <4>2
    <3>2. CASE d[2] # n
      <4>1. Sys(n)' = Sys(n) /\ Usr(n)' = Usr(n) /\ file' = file
            BY <1>1, <1>3, <3>2
      <4>2. SysContent(n)' = SysContent(n)
            BY <4>1 DEF SysContent
      <4>3. y.base[n] = r.base[n] /\ y.dir = r.dir
            BY <2>2, <2>4, <3>2
      <4>4. BaseOK(r)
            BY <2>1 DEF FitsReader
      <4>. HIDE DEF r, y, Inv
      <4>. QED BY <4>1, <4>2, <4>3, <4>4 DEF BaseOK
    <3>. QED BY <3>1, <3>2
  <2>9. GripOK(run[q])'
    <3>. SUFFICES ASSUME Hand(r) PROVE GripOK(run[q])'
         BY <2>2 DEF GripOK, Hand
    <3>1. /\ r.ino \in 1..clock /\ FileOK(r.saw) /\ r.saw.at # 0
          /\ file[r.ino] \in r.stood /\ \A f \in r.stood : f.content \in Nat
          /\ \A j \in Inodes : file[j].at = r.saw.at => j = r.ino
          /\ \A e \in Paths : entry[e] # None /\ entry[e].stamp[1] = r.saw.at => Met(r, entry[e].content)
          BY <2>1 DEF FitsReader, GripOK
    <3>2. \A e \in Paths : place'[e] = r.ino => e = PathOf(r)
          BY <1>2, <2>1, <3>1 DEF FitsReader, GripOK
    <3>3. \A f \in r.stood : f.sound => y.base[RepoOf(r)] <= f.content
      <4>1. y.base[RepoOf(r)] <= r.base[RepoOf(r)] /\ y.base[RepoOf(r)] \in Nat /\ r.base[RepoOf(r)] \in Nat
            BY <1>2, <2>3, <2>5, <2>6
      <4>. QED BY <2>1, <3>1, <4>1 DEF FitsReader, GripOK
    <3>4. FileOK(run[q].saw)'
          BY <1>1, <2>2, <3>1 DEF FileOK
    <3>. HIDE DEF r, y
    <3>5. /\ y.ino \in 1..clock' /\ y.saw.at # 0
          /\ file'[y.ino] \in y.stood /\ \A f \in y.stood : f.content \in Nat
          /\ \A j \in Inodes : file'[j].at = y.saw.at => j = y.ino
          /\ \A e \in Paths : place'[e] = y.ino => e = PathOf(y)
          BY <1>1, <2>2, <3>1, <3>2 DEF PathOf, RepoOf
    <3>6. /\ \A e \in Paths : entry'[e] # None /\ entry'[e].stamp[1] = y.saw.at => Met(y, entry'[e].content)
          /\ \A f \in y.stood : f.sound => y.base[RepoOf(y)] <= f.content
          BY <1>1, <2>2, <3>1, <3>3 DEF RepoOf, Met
    <3>. USE DEF y
    <3>. QED BY <3>4, <3>5, <3>6 DEF GripOK, Inodes, Paths, Met, PathOf, RepoOf
  <2>10. AnswerOK(run[q])'
    <3>. SUFFICES ASSUME r.got # None PROVE AnswerOK(run[q])'
         BY <2>2 DEF AnswerOK
    <3>1. /\ \E f \in r.got.stood : r.got.content = f.content
          /\ r.got.repo \in Repos /\ r.got.content \in Nat /\ r.got.build \in Nat
          /\ r.got.build = r.build \/ (r.got.build < exe /\ r.build < exe)
          /\ (\A f \in r.got.stood : f.sound) => r.base[r.got.repo] <= r.got.content
          BY <2>1 DEF FitsReader, AnswerOK
    <3>2. (\A f \in r.got.stood : f.sound) => y.base[r.got.repo] <= r.got.content
      <4>1. /\ y.base[r.got.repo] <= r.base[r.got.repo]
            /\ y.base[r.got.repo] \in Nat /\ r.base[r.got.repo] \in Nat
            BY <1>2, <2>3, <2>5, <3>1
      <4>. QED BY <3>1, <4>1
    <3>. QED BY <1>1, <2>2, <3>1, <3>2 DEF AnswerOK, Repos
  <2>. QED BY <2>1, <2>2, <2>7, <2>8, <2>9, <2>10 DEF FitsReader, Hand, PathOf, RepoOf
<1>8. ASSUME NEW p \in Runs(Seeders)' PROVE FitsSeeder(run[p])'
  <2>1. p \in Runs(Seeders) /\ run'[p] = run[p] /\ FitsSeeder(run[p])
        BY <1>6, <1>8 DEF RunsOK
  <2>2. \A j \in 1..clock, e \in Paths : place'[e] = j => place[e] = j
        BY <1>2
  <2>3. clock' = clock
        BY <1>1
  <2>. DEFINE r == run[p]
  <2>. HIDE DEF Inv
  <2>. QED BY <2>1, <2>2, <2>3 DEF FitsSeeder, PathOf, RepoOf
<1>9. RunsOK'
      BY <1>1, <1>7, <1>8 DEF RunsOK, Procs
<1>10. PairsOK'
  <2>1. \A q, s \in Runs(Readers)' : Agree(run'[q], run'[s])
        BY <1>7 DEF PairsOK, Agree
  <2>2. \A p \in Runs(Seeders)', q \in Runs(Readers)' : SamePath(run'[p], run'[q])
        BY <1>6, <1>7 DEF PairsOK, SamePath
  <2>. QED BY <2>1, <2>2 DEF PairsOK, Agree, SamePath, Hand, PathOf, RepoOf
<1>. QED BY <1>4, <1>9, <1>10

LEMMA UpgradeKeeps == ASSUME Inv, Upgrade PROVE Inv'
<1>. USE DEF Inv
<1>1. exe' = exe + 1 /\ exe \in Nat \ {0} /\ UNCHANGED <<place, file, entry, run, clock>>
      BY DEF Upgrade, IndexOK
<1>2. ShelfOK'
      BY <1>1 DEF ShelfOK, FilesOK, FileOK, OneTime, OnePath, Ages, Sys, Usr
<1>3. IndexOK'
      BY <1>1 DEF IndexOK, EntryOK
<1>4. ASSUME NEW q \in Runs(Readers) PROVE FitsReader(run[q])'
  <2>1. FitsReader(run[q]) /\ run'[q] = run[q]
        BY <1>1 DEF RunsOK
  <2>2. ReaderOK(run[q])'
        BY <1>1, <2>1 DEF FitsReader, ReaderOK
  <2>3. BaseOK(run[q])' /\ GripOK(run[q])'
        BY <1>1, <2>1 DEF FitsReader, BaseOK, GripOK, FileOK, Hand, SysContent, Sys, Usr, Met, PathOf, RepoOf
  <2>4. AnswerOK(run[q])'
        BY <1>1, <2>1 DEF FitsReader, ReaderOK, AnswerOK
  <2>. QED BY <2>2, <2>3, <2>4 DEF FitsReader
<1>5. RunsOK'
      BY <1>1, <1>4 DEF RunsOK, Runs, FitsSeeder, PathOf, RepoOf
<1>6. PairsOK'
      BY <1>1 DEF PairsOK, Runs, Agree, SamePath, Hand, PathOf, RepoOf
<1>. QED BY <1>2, <1>3, <1>5, <1>6

LEMMA PowerCutKeeps == ASSUME Inv, NEW d \in Paths, PowerCut(d) PROVE Inv'
<1>. USE DEF Inv
<1>1. /\ entry' = [entry EXCEPT ![d] = None] /\ run' = [p \in Procs |-> None]
      /\ UNCHANGED <<place, file, exe, clock>>
      BY DEF PowerCut
<1>2. ShelfOK'
      BY <1>1 DEF ShelfOK, FilesOK, FileOK, OneTime, OnePath, Ages, Sys, Usr
<1>3. IndexOK'
      BY <1>1 DEF IndexOK, EntryOK
<1>4. RunsOK' /\ PairsOK'
      BY <1>1 DEF RunsOK, PairsOK, Runs, Procs
<1>. QED BY <1>2, <1>3, <1>4

\* The entry of a parsed file is of what the file holds, for whoever looked at it.
LEMMA ParseKeeps == ASSUME Inv, NEW p \in Procs, Parse(p) PROVE Inv'
<1>. USE DEF Inv
<1>. DEFINE r == run[p]
            f == file[r.ino]
            e == [exe |-> ExeStamp(p), build |-> r.build, stamp |-> StampOfTheHandle(p), content |-> f.content]
<1>1. /\ p \in Readers /\ p \in Runs(Readers) /\ FitsReader(r) /\ Hand(r)
      /\ UNCHANGED <<place, file, exe, clock>>
      BY WhoIsAt DEF Parse, At, Procs, Hand, Runs
<1>2. Path(p) \in Paths /\ Repo(p) \in Repos /\ RepoOf(r) = Repo(p)
      BY <1>1, Configured DEF FitsReader, ReaderOK, Path, Repo, Paths, RepoOf
<1>3. /\ r.ino \in Inodes /\ f \in r.stood /\ f.content \in Nat /\ r.saw.at \in 1..clock
      /\ r.build \in 1..exe /\ exe \in Nat \ {0} /\ r.base[Repo(p)] \in Nat
      /\ f.sound => r.base[Repo(p)] <= f.content
  <2>1. r.ino \in Inodes /\ f \in r.stood /\ f.content \in Nat /\ r.saw.at \in 1..clock
        BY <1>1, IndexAssumption DEF FitsReader, GripOK, FileOK, ShelfOK, FilesOK, Inodes
  <2>2. r.build \in 1..exe /\ exe \in Nat \ {0} /\ r.base[Repo(p)] \in Nat
        BY <1>1, <1>2 DEF FitsReader, ReaderOK, IndexOK
  <2>. QED BY <1>1, <1>2, <2>1, <2>2 DEF FitsReader, GripOK
<1>4. CASE UNCHANGED entry /\ Answer(p, Nothing(p, FALSE))
  <2>1. Allowed(r, Nothing(p, FALSE))
    <3>. DEFINE g == Nothing(p, FALSE)
                z == [Blank EXCEPT !.sound = FALSE]
    <3>1. z.content = 0 /\ z.sound = FALSE
          BY DEF Blank
    <3>2. g.content = 0 /\ g.repo = Repo(p) /\ g.build = r.build /\ g.stood = {z}
          BY DEF Nothing, Read
    <3>. HIDE DEF g, z
    <3>3. Allowed(r, g)
          BY <1>2, <1>3, <3>1, <3>2 DEF Allowed
    <3>. QED BY <3>3 DEF g
  <2>. QED BY <1>1, <1>4, <2>1, AnswerKeeps
<1>5. CASE /\ entry' = [entry EXCEPT ![Path(p)] = e]
           /\ Answer(p, Read(p, f.content, r.build, {f}))
  <2>. DEFINE x == Onward(r, Read(p, f.content, r.build, {f}))
  <2>1. Allowed(r, Read(p, f.content, r.build, {f}))
        BY <1>2, <1>3 DEF Allowed, Read
  <2>2. ReaderOK(x) /\ BaseOK(x) /\ AnswerOK(x) /\ ~Hand(x)
        BY <1>1, <2>1, AnswerFits
  <2>3. run' = [run EXCEPT ![p] = x]
        BY <1>5, AnswerStep
  <2>4. EntryOK(e)
    <3>1. e.stamp[1] = r.saw.at /\ e.content = f.content /\ e.build = r.build /\ e.exe = ExeStamp(p)
          BY DEF StampOfTheHandle, Stamp
    <3>2. \A j \in Inodes : r.saw.at = file[j].at => j = r.ino
          BY <1>1 DEF FitsReader, GripOK
    <3>. QED BY <1>3, <3>1, <3>2 DEF EntryOK, ExeStamp
  <2>5. ASSUME NEW q \in Runs(Readers), Hand(run[q]), run[q].saw.at = e.stamp[1]
        PROVE  Met(run[q], e.content)
    <3>1. run[q].ino = r.ino
          BY <1>1, <2>5 DEF PairsOK, Agree, StampOfTheHandle, Stamp
    <3>2. file[run[q].ino] \in run[q].stood
          BY <2>5 DEF RunsOK, FitsReader, GripOK
    <3>. QED BY <3>1, <3>2 DEF Met
  <2>. HIDE DEF x, e
  <2>6. DOMAIN entry' = Paths /\ \A d \in Paths : entry'[d] = IF d = Path(p) THEN e ELSE entry[d]
        BY <1>2, <1>5 DEF IndexOK
  <2>7. ShelfOK'
        BY <1>1 DEF ShelfOK, FilesOK, FileOK, OneTime, OnePath, Ages, Sys, Usr
  <2>8. IndexOK'
    <3>1. \A d \in Paths : entry'[d] # None => EntryOK(entry'[d])
          BY <2>4, <2>6 DEF IndexOK
    <3>2. \A d \in Paths : entry'[d] # None => EntryOK(entry[d])'
          BY <1>1, <3>1 DEF EntryOK
    <3>. QED BY <1>1, <2>6, <3>2 DEF IndexOK, Paths
  <2>9. /\ DOMAIN run' = Procs /\ run'[p] = x
        /\ \A q \in Runs(Readers)' : q # p => q \in Runs(Readers) /\ run'[q] = run[q]
        /\ \A q \in Runs(Seeders)' : q \in Runs(Seeders) /\ run'[q] = run[q]
        BY <1>1, <2>3, IndexAssumption DEF RunsOK, Runs, Procs
  <2>10. ASSUME NEW q \in Runs(Readers)' PROVE FitsReader(run[q])'
    <3>1. CASE q # p
      <4>1. q \in Runs(Readers) /\ run'[q] = run[q] /\ FitsReader(run[q])
            BY <2>9, <3>1 DEF RunsOK
      <4>2. ReaderOK(run[q])' /\ BaseOK(run[q])'
            BY <1>1, <4>1 DEF FitsReader, ReaderOK, BaseOK, SysContent, Sys, Usr
      <4>3. Hand(run[q]) => \A d \in Paths : entry'[d] # None /\ entry'[d].stamp[1] = run[q].saw.at
                                             => Met(run[q], entry'[d].content)
            BY <2>5, <2>6, <4>1 DEF FitsReader, GripOK
      <4>4. GripOK(run[q])'
            BY <1>1, <4>1, <4>3 DEF FitsReader, GripOK, FileOK, Hand, Met, PathOf, RepoOf, Inodes, Paths
      <4>5. AnswerOK(run[q])'
            BY <1>1, <4>1 DEF FitsReader, AnswerOK
      <4>. QED BY <4>2, <4>4, <4>5 DEF FitsReader
    <3>2. CASE q = p
      <4>1. ReaderOK(run[q])' /\ BaseOK(run[q])' /\ AnswerOK(run[q])'
            BY <1>1, <2>2, <2>9, <3>2 DEF ReaderOK, BaseOK, AnswerOK, SysContent, Sys, Usr
      <4>2. GripOK(run[q])'
            BY <2>2, <2>9, <3>2 DEF GripOK, Hand
      <4>. QED BY <4>1, <4>2 DEF FitsReader
    <3>. QED BY <3>1, <3>2
  <2>11. RunsOK'
    <3>1. \A q \in Runs(Seeders)' : FitsSeeder(run[q])'
          BY <1>1, <2>9 DEF RunsOK, FitsSeeder, PathOf, RepoOf
    <3>. QED BY <2>9, <2>10, <3>1 DEF RunsOK, Procs
  <2>12. PairsOK'
    <3>1. \A q, s \in Runs(Readers)' : Agree(run'[q], run'[s])
          BY <2>2, <2>9 DEF PairsOK, Agree
    <3>2. \A q \in Runs(Seeders)', s \in Runs(Readers)' : SamePath(run'[q], run'[s])
          BY <2>2, <2>9 DEF PairsOK, SamePath
    <3>. QED BY <3>1, <3>2 DEF PairsOK, Agree, SamePath, Hand, PathOf, RepoOf
  <2>. QED BY <2>7, <2>8, <2>11, <2>12
<1>. QED BY <1>4, <1>5 DEF Parse

LEMMA NextKeeps == Inv /\ [Next]_vars => Inv'
<1>. SUFFICES ASSUME Inv, [Next]_vars PROVE Inv'
     OBVIOUS
<1>1. ASSUME NEW p \in Procs, Start(p) \/ StartPrefix(p) \/ End(p) PROVE Inv'
      BY <1>1, StartKeeps, StartPrefixKeeps, EndKeeps
<1>2. ASSUME NEW p \in Procs, SeedCheck(p) \/ SeedOpen(p) \/ SeedFails(p) \/ SeedDone(p) PROVE Inv'
      BY <1>2, SeedCheckKeeps, SeedOpenKeeps, SeedFailsKeeps, SeedDoneKeeps
<1>3. ASSUME NEW p \in Procs, Look(p) \/ Load(p) \/ Open(p) \/ Parse(p) \/ PreferFresherCopy(p) PROVE Inv'
      BY <1>3, LookKeeps, LoadKeeps, OpenKeeps, ParseKeeps, PreferKeeps
<1>4. ASSUME NEW d \in Paths, Arrive(d) \/ Refuse(d) \/ PowerCut(d) PROVE Inv'
      BY <1>4, ArriveKeeps, RefuseKeeps, PowerCutKeeps
<1>5. CASE Upgrade
      BY <1>5, UpgradeKeeps
<1>6. CASE UNCHANGED vars
  <2>. USE <1>6 DEF Inv, vars
  <2>1. ShelfOK'
        BY DEF ShelfOK, FilesOK, FileOK, OneTime, OnePath, Ages, Sys, Usr
  <2>2. IndexOK'
        BY DEF IndexOK, EntryOK
  <2>3. RunsOK'
    <3>1. \A q \in Runs(Readers) : FitsReader(run[q])'
          BY Still DEF RunsOK
    <3>2. \A p \in Runs(Seeders) : FitsSeeder(run[p])'
          BY Still DEF RunsOK
    <3>. QED BY <3>1, <3>2 DEF RunsOK, Runs
  <2>4. PairsOK'
        BY DEF PairsOK, Runs, Agree, SamePath, Hand, PathOf, RepoOf
  <2>. QED BY <2>1, <2>2, <2>3, <2>4
<1>. QED BY <1>1, <1>2, <1>3, <1>4, <1>5, <1>6 DEF Next

-----------------------------------------------------------------------------

\* Whatever is synced, seeded, refused, upgraded, killed or cut between the look
\* at a database and the answer, what a command gets of it (from the file or from
\* the index) is what that very file held meanwhile, parsed by its own build:
\* for any number of repositories, of checks and of commands over a prefix.
THEOREM NothingStaleIsRead == Spec => []ReadsWhatStood
<1>1. Inv => ReadsWhatStood
      BY InvReads
<1>. QED BY <1>1, InitOK, NextKeeps, PTL DEF Spec

\* Whichever copy a check prefers, and whatever arrives after it preferred it,
\* no repository it answers for is older than the system's copy when it began,
\* a seed that a sync crossed or that was cut short excepted.
THEOREM NothingOlderIsRead == Spec => []NeverOlder
<1>1. Inv => NeverOlder
      BY InvReads
<1>. QED BY <1>1, InitOK, NextKeeps, PTL DEF Spec

-----------------------------------------------------------------------------
(* One archive unpacked (Extract).                                         *)

(* Paths: a prefix of one, and what lies below it.                         *)
Under(q, p) == Len(q) < Len(p) /\ SubSeq(p, 1, Len(q)) = q

LEMMA AtMost == ASSUME NEW a \in Nat, NEW b \in Nat PROVE /\ a <= b <=> a = b \/ a < b
                                                         /\ ~ (a = b /\ a < b)
OBVIOUS

LEMMA Prefix ==
  ASSUME NEW p \in Places, NEW n \in 0..Len(p)
  PROVE  /\ SubSeq(p, 1, n) \in Places /\ Len(SubSeq(p, 1, n)) = n
         /\ \A m \in 0..n : SubSeq(SubSeq(p, 1, n), 1, m) = SubSeq(p, 1, m)
         /\ \A m \in 1..n : SubSeq(p, 1, n)[m] = p[m]
<1>. USE DEF Places
<1>0. Len(p) \in Nat /\ \A i \in 1..Len(p) : p[i] \in Names
      BY LenProperties, ElementOfSeq
<1>1. /\ SubSeq(p, 1, n) \in Seq(Names) /\ Len(SubSeq(p, 1, n)) = n
      /\ \A m \in 1..n : SubSeq(p, 1, n)[m] = p[m]
  <2>1. \A i \in 1..n : p[i] \in Names
        BY <1>0
  <2>2. /\ SubSeq(p, 1, n) \in Seq(Names)
        /\ Len(SubSeq(p, 1, n)) = IF 1 <= n THEN n - 1 + 1 ELSE 0
        /\ \A i \in 1..n - 1 + 1 : SubSeq(p, 1, n)[i] = p[1 + i - 1]
        BY <1>0, <2>1, SubSeqProperties
  <2>. QED BY <1>0, <2>2
<1>2. ASSUME NEW m \in 0..n PROVE SubSeq(SubSeq(p, 1, n), 1, m) = SubSeq(p, 1, m)
  <2>1. CASE m = 0
    <3>1. SubSeq(SubSeq(p, 1, n), 1, 0) = <<>> /\ SubSeq(p, 1, 0) = <<>>
          BY SubSeqEmpty
    <3>. QED BY <2>1, <3>1
  <2>2. CASE m # 0
    <3>1. /\ 1 \in 1..Len(p) /\ n \in 1..Len(p) /\ 1 \in 1..n - 1 + 1 /\ m \in 1..n - 1 + 1
          BY <1>0, <2>2
    <3>2. SubSeq(SubSeq(p, 1, n), 1, m) = SubSeq(p, 1 + 1 - 1, 1 + m - 1)
          BY <3>1, SubSeqOfSubSeq
    <3>. QED BY <3>1, <3>2
  <2>. QED BY <2>1, <2>2
<1>. QED BY <1>1, <1>2

LEMMA Below ==
  ASSUME NEW q \in Places, NEW p \in Places
  PROVE  IsStrictPrefix(q, p) <=> Under(q, p)
<1>0. /\ Len(p) \in Nat /\ Len(q) \in Nat
      /\ SubSeq(p, 1, Len(p)) = p /\ SubSeq(q, 1, Len(q)) = q
      BY LenProperties, SubSeqFull DEF Places
<1>1. Len(q) = Len(p) /\ SubSeq(p, 1, Len(q)) = q => q = p
      BY <1>0
<1>2. Len(q) < Len(p) => q # p
      BY <1>0
<1>3. IsPrefix(q, p) <=> Len(q) <= Len(p) /\ SubSeq(p, 1, Len(q)) = q
      BY <1>0 DEF IsPrefix
<1>4. (Len(q) <= Len(p) /\ ~(Len(q) = Len(p))) <=> Len(q) < Len(p)
      BY <1>0, AtMost
<1>. QED BY <1>1, <1>2, <1>3, <1>4 DEF IsStrictPrefix, Under

LEMMA Transitive ==
  ASSUME NEW a \in Places, NEW b \in Places, NEW c \in Places, Under(a, b), Under(b, c)
  PROVE  Under(a, c)
<1>0. Len(a) \in Nat /\ Len(b) \in Nat /\ Len(c) \in Nat
      BY LenProperties DEF Places
<1>1. SubSeq(SubSeq(c, 1, Len(b)), 1, Len(a)) = SubSeq(c, 1, Len(a))
      BY <1>0, Prefix DEF Under
<1>. QED BY <1>0, <1>1 DEF Under

LEMMA Lengths == ASSUME NEW p \in Places PROVE Len(p) \in Nat /\ (Len(p) = 0 <=> p = <<>>)
BY EmptySeq, LenProperties DEF Places

LEMMA FrontIs ==
  ASSUME NEW p \in Places, p # <<>>
  PROVE  /\ Front(p) \in Places /\ Len(Front(p)) = Len(p) - 1
         /\ \A n \in 0..Len(p) - 1 : SubSeq(Front(p), 1, n) = SubSeq(p, 1, n)
         /\ Under(Front(p), p)
<1>1. Len(p) \in Nat /\ Len(p) # 0
      BY Lengths
<1>2. Len(p) - 1 \in 0..Len(p)
      BY <1>1
<1>3. /\ SubSeq(p, 1, Len(p) - 1) \in Places /\ Len(SubSeq(p, 1, Len(p) - 1)) = Len(p) - 1
      /\ \A n \in 0..Len(p) - 1 : SubSeq(SubSeq(p, 1, Len(p) - 1), 1, n) = SubSeq(p, 1, n)
      BY <1>2, Prefix
<1>. QED BY <1>1, <1>3 DEF Front, Under

LEMMA Empty0 == ASSUME NEW p PROVE SubSeq(p, 1, 0) = <<>>
BY SubSeqEmpty

LEMMA RootIs == <<>> \in Places /\ Len(<<>>) = 0
BY EmptySeq DEF Places

LEMMA StepsOf ==
  ASSUME NEW p \in Places, NEW q
  PROVE  q \in Steps(p) <=> q \in Places /\ q # <<>> /\ (Under(q, p) \/ q = p)
<1>0. Len(p) \in Nat /\ SubSeq(p, 1, Len(p)) = p
      BY LenProperties, SubSeqFull DEF Places
<1>1. ASSUME q \in Steps(p) PROVE q \in Places /\ q # <<>> /\ (Under(q, p) \/ q = p)
  <2>1. PICK n \in 1..Len(p) : q = SubSeq(p, 1, n)
        BY <1>1 DEF Steps
  <2>2. q \in Places /\ Len(q) = n
        BY <2>1, <1>0, Prefix
  <2>3. CASE n = Len(p)
        BY <2>1, <2>2, <2>3, <1>0, RootIs
  <2>4. CASE n < Len(p)
    <3>1. Len(q) < Len(p) /\ SubSeq(p, 1, Len(q)) = q /\ Len(q) # 0
          BY <2>1, <2>2, <2>4
    <3>. QED BY <2>2, <3>1, RootIs DEF Under
  <2>5. n = Len(p) \/ n < Len(p)
    <3>1. n \in Nat /\ n <= Len(p)
          BY <1>0
    <3>. QED BY <1>0, <3>1, AtMost
  <2>. QED BY <2>3, <2>4, <2>5
<1>2. ASSUME q \in Places, q # <<>>, Under(q, p) \/ q = p PROVE q \in Steps(p)
  <2>1. Len(q) \in 1..Len(p) /\ q = SubSeq(p, 1, Len(q))
        BY <1>2, <1>0, Lengths DEF Under
  <2>. QED BY <2>1 DEF Steps
<1>. QED BY <1>1, <1>2

LEMMA UnderFront ==
  ASSUME NEW p \in Places, p # <<>>, NEW q \in Places
  PROVE  Under(q, p) <=> q = Front(p) \/ Under(q, Front(p))
<1>1. Len(p) \in Nat /\ Front(p) \in Places /\ Len(Front(p)) = Len(p) - 1 /\ Under(Front(p), p)
      BY FrontIs, Lengths
<1>2. ASSUME Under(q, p) PROVE Under(q, Front(p)) \/ q = Front(p)
  <2>1. Len(q) \in Nat /\ Len(q) < Len(p) /\ SubSeq(p, 1, Len(q)) = q
        BY <1>2, Lengths DEF Under
  <2>2. SubSeq(Front(p), 1, Len(q)) = q
        BY <1>1, <2>1, FrontIs
  <2>3. CASE Len(q) = Len(p) - 1
        BY <2>1, <2>3 DEF Front
  <2>4. CASE Len(q) < Len(p) - 1
        BY <1>1, <2>2, <2>4 DEF Under
  <2>5. Len(q) = Len(p) - 1 \/ Len(q) < Len(p) - 1
        BY <1>1, <2>1
  <2>. QED BY <2>3, <2>4, <2>5
<1>. QED BY <1>1, <1>2, Transitive

LEMMA NothingUnder == ASSUME NEW q \in Places PROVE ~ Under(q, <<>>) /\ ~ Under(q, q)
BY Lengths, RootIs DEF Under

LEMMA RootUnder == ASSUME NEW p \in Places, p # <<>> PROVE Under(<<>>, p)
BY Lengths, RootIs, Empty0 DEF Under

LEMMA AncestorsOf ==
  ASSUME NEW p \in Places, NEW q
  PROVE  q \in Ancestors(p) <=> q \in Places /\ q # <<>> /\ Under(q, p)
<1>1. CASE p = <<>>
  <2>1. Front(p) = <<>> /\ Steps(<<>>) = {}
        BY <1>1, RootIs, SubSeqEmpty DEF Front, Steps
  <2>. QED BY <1>1, <2>1, NothingUnder DEF Ancestors
<1>2. CASE p # <<>>
      BY <1>2, FrontIs, UnderFront, StepsOf DEF Ancestors
<1>. QED BY <1>1, <1>2

-----------------------------------------------------------------------------
(* A name with `.pacnew`: beside the other, in the same directory.         *)

Plain == Seq(DOMAIN Waiting)

LEMMA PlainIs == Plain \subseteq Places /\ \A n \in DOMAIN Waiting : n \in Names /\ Waiting[n] \in Names
<1>1. DOMAIN Waiting \subseteq Names
      BY DEF Names
<1>. QED BY <1>1, SeqMonotonic DEF Plain, Places, Names

LEMMA Split ==
  ASSUME NEW S, NEW p \in Seq(S), p # <<>>
  PROVE  Front(p) \in Seq(S) /\ p[Len(p)] \in S /\ p = Append(Front(p), p[Len(p)])
<1>1. Len(p) \in Nat /\ Len(p) # 0
      BY EmptySeq
<1>2. \A i \in 1..Len(p) : p[i] \in S
      BY ElementOfSeq
<1>3. Front(p) \in Seq(S)
  <2>1. \A i \in 1..Len(p) - 1 : p[i] \in S
        BY <1>1, <1>2
  <2>. QED BY <1>1, <2>1, SubSeqProperties DEF Front
<1>4. p = SubSeq(p, 1, Len(p) - 1) \o <<p[Len(p)]>>
  <2>1. 1 \in 1..Len(p) /\ Len(p) \in 1..Len(p)
        BY <1>1
  <2>. QED BY <2>1, SubSeqFull, SubSeqRecursiveSecond
<1>5. p[Len(p)] \in S
      BY <1>1, <1>2
<1>. QED BY <1>3, <1>4, <1>5, AppendIsConcat DEF Front

LEMMA FrontAppend ==
  ASSUME NEW S, NEW p \in Seq(S), NEW e \in S
  PROVE  Front(Append(p, e)) = p
<1>. DEFINE t == Append(p, e)
<1>1. /\ t \in Seq(S) /\ t # <<>> /\ Len(t) = Len(p) + 1 /\ \A i \in 1..Len(p) : t[i] = p[i]
      BY AppendProperties
<1>. HIDE DEF t
<1>2. Front(t) \in Seq(S) /\ t = Append(Front(t), t[Len(t)]) /\ t[Len(t)] \in S
      BY <1>1, Split
<1>3. Append(p, e) = Append(Front(t), t[Len(t)])
      BY <1>2 DEF t
<1>4. p = Front(t)
      BY <1>2, <1>3, AppendInjective
<1>. QED BY <1>4 DEF t

LEMMA PacnewIs ==
  ASSUME NEW p \in Plain, p # <<>>
  PROVE  /\ PacnewPath(p) \in Places /\ PacnewPath(p) # <<>>
         /\ Front(PacnewPath(p)) = Front(p) /\ Front(p) \in Places
         /\ \A q \in Places : Under(q, PacnewPath(p)) <=> Under(q, p)
<1>1. /\ p \in Places /\ Front(p) \in Places /\ p[Len(p)] \in DOMAIN Waiting
      BY Split, PlainIs DEF Plain
<1>2. Waiting[p[Len(p)]] \in Names
      BY <1>1, PlainIs
<1>3. PacnewPath(p) \in Places /\ PacnewPath(p) # <<>>
      BY <1>1, <1>2, AppendProperties DEF PacnewPath, Places
<1>4. Front(PacnewPath(p)) = Front(p)
      BY <1>1, <1>2, FrontAppend DEF PacnewPath, Places
<1>. QED BY <1>1, <1>3, <1>4, UnderFront

LEMMA PacnewInjective ==
  ASSUME NEW p \in Plain, NEW q \in Plain, p # <<>>, q # <<>>, PacnewPath(p) = PacnewPath(q)
  PROVE  p = q
<1>1. /\ Front(p) \in Plain /\ p[Len(p)] \in DOMAIN Waiting /\ p = Append(Front(p), p[Len(p)])
      /\ Front(q) \in Plain /\ q[Len(q)] \in DOMAIN Waiting /\ q = Append(Front(q), q[Len(q)])
      BY Split DEF Plain
<1>2. /\ Front(p) \in Seq(Names) /\ Front(q) \in Seq(Names)
      /\ Waiting[p[Len(p)]] \in Names /\ Waiting[q[Len(q)]] \in Names
      BY <1>1, PlainIs DEF Places
<1>3. Front(p) = Front(q) /\ Waiting[p[Len(p)]] = Waiting[q[Len(q)]]
      BY <1>2, AppendInjective DEF PacnewPath
<1>4. p[Len(p)] = q[Len(q)]
      BY <1>1, <1>3, ExtractAssumption DEF ExtractAssumption
<1>. QED BY <1>1, <1>3, <1>4

-----------------------------------------------------------------------------
(* Trees: what keeps one.                                                  *)

LEMMA TreeIs ==
  ASSUME NEW d
  PROVE  IsTree(d) <=>
           /\ DOMAIN d \subseteq Places /\ <<>> \in DOMAIN d /\ d[<<>>].kind = "dir"
           /\ \A p \in DOMAIN d : /\ d[p].kind \in {"dir", "file", "link"}
                                  /\ \A q \in Places : Under(q, p) => q \in DOMAIN d /\ d[q].kind = "dir"
<1>1. ASSUME IsTree(d), NEW p \in DOMAIN d, NEW q \in Places, Under(q, p)
      PROVE  q \in DOMAIN d /\ d[q].kind = "dir"
  <2>1. p \in Places
        BY <1>1 DEF IsTree
  <2>2. Len(q) \in 0..Len(p) - 1 /\ q = SubSeq(p, 1, Len(q))
        BY <1>1, <2>1, Lengths DEF Under
  <2>3. \A n \in 0..Len(p) - 1 : SubSeq(p, 1, n) \in DOMAIN d /\ d[SubSeq(p, 1, n)].kind = "dir"
        BY <1>1 DEF IsTree
  <2>. QED BY <2>2, <2>3
<1>2. ASSUME DOMAIN d \subseteq Places, NEW p \in DOMAIN d, NEW n \in 0..Len(p) - 1,
             \A q \in Places : Under(q, p) => q \in DOMAIN d /\ d[q].kind = "dir"
      PROVE  SubSeq(p, 1, n) \in DOMAIN d /\ d[SubSeq(p, 1, n)].kind = "dir"
  <2>1. p \in Places /\ Len(p) \in Nat
        BY <1>2, Lengths
  <2>2. n \in 0..Len(p) /\ n < Len(p)
        BY <2>1
  <2>3. SubSeq(p, 1, n) \in Places /\ Under(SubSeq(p, 1, n), p)
        BY <2>1, <2>2, Prefix DEF Under
  <2>. QED BY <1>2, <2>3
<1>. QED BY <1>1, <1>2 DEF IsTree

Bare(d, p) == \A q \in DOMAIN d : ~ Under(p, q)

LEMMA DirsKeepTree ==
  ASSUME NEW d, IsTree(d), NEW M \in SUBSET Places, M \cap DOMAIN d = {},
         \A p \in M : \A q \in Places : Under(q, p) => q \in M \/ (q \in DOMAIN d /\ d[q].kind = "dir")
  PROVE  IsTree(WithDirs(d, M))
<1>. DEFINE e == WithDirs(d, M)
<1>1. /\ DOMAIN e = DOMAIN d \cup M /\ \A p \in M : e[p].kind = "dir"
      /\ \A p \in DOMAIN d : e[p] = d[p]
      BY DEF WithDirs, Dir
<1>2. <<>> \in DOMAIN e /\ e[<<>>].kind = "dir" /\ DOMAIN e \subseteq Places
      BY <1>1, TreeIs
<1>3. ASSUME NEW p \in DOMAIN e
      PROVE  /\ e[p].kind \in {"dir", "file", "link"}
             /\ \A q \in Places : Under(q, p) => q \in DOMAIN e /\ e[q].kind = "dir"
  <2>. HIDE DEF e
  <2>1. CASE p \in M
        BY <1>1, <2>1
  <2>2. CASE p \in DOMAIN d
        BY <1>1, <2>2, TreeIs
  <2>. QED BY <1>1, <2>1, <2>2
<1>. HIDE DEF e
<1>4. IsTree(e)
      BY <1>2, <1>3, TreeIs
<1>. QED BY <1>4 DEF e

LEMMA PutKeepsTree ==
  ASSUME NEW d, IsTree(d), NEW p \in Places, p # <<>>, NEW node,
         node.kind \in {"dir", "file", "link"},
         Front(p) \in DOMAIN d, d[Front(p)].kind = "dir",
         node.kind = "dir" \/ Bare(d, p)
  PROVE  IsTree(With(d, p, node))
<1>. DEFINE e == With(d, p, node)
<1>1. /\ DOMAIN e = DOMAIN d \cup {p} /\ e[p] = node
      /\ \A q \in DOMAIN d : q # p => e[q] = d[q]
      BY DEF With
<1>2. <<>> \in DOMAIN e /\ e[<<>>].kind = "dir" /\ DOMAIN e \subseteq Places
      BY <1>1, TreeIs
<1>. HIDE DEF e
<1>3. ASSUME NEW q \in Places, Under(q, p) PROVE q \in DOMAIN d /\ d[q].kind = "dir" /\ q # p
      BY <1>3, UnderFront, TreeIs, NothingUnder
<1>4. ASSUME NEW r \in DOMAIN e
      PROVE  /\ e[r].kind \in {"dir", "file", "link"}
             /\ \A q \in Places : Under(q, r) => q \in DOMAIN e /\ e[q].kind = "dir"
  <2>1. CASE r = p
        BY <1>1, <1>3, <2>1
  <2>2. CASE r \in DOMAIN d /\ r # p
    <3>1. ASSUME NEW q \in Places, Under(q, r) PROVE q \in DOMAIN e /\ e[q].kind = "dir"
      <4>1. q \in DOMAIN d /\ d[q].kind = "dir"
            BY <2>2, <3>1, TreeIs
      <4>2. q = p => node.kind = "dir"
            BY <2>2, <3>1 DEF Bare
      <4>. QED BY <1>1, <4>1, <4>2
    <3>. QED BY <1>1, <2>2, <3>1, TreeIs
  <2>. QED BY <1>1, <2>1, <2>2
<1>5. IsTree(e)
      BY <1>2, <1>4, TreeIs
<1>. QED BY <1>5 DEF e

LEMMA CutKeepsTree ==
  ASSUME NEW d, IsTree(d), NEW p \in Places, p # <<>>, Bare(d, p)
  PROVE  IsTree(Without(d, p))
<1>. DEFINE e == Without(d, p)
<1>1. DOMAIN e = DOMAIN d \ {p} /\ \A q \in DOMAIN e : e[q] = d[q]
      BY DEF Without
<1>2. <<>> \in DOMAIN e /\ e[<<>>].kind = "dir" /\ DOMAIN e \subseteq Places
      BY <1>1, TreeIs
<1>. HIDE DEF e
<1>3. ASSUME NEW r \in DOMAIN e
      PROVE  /\ e[r].kind \in {"dir", "file", "link"}
             /\ \A q \in Places : Under(q, r) => q \in DOMAIN e /\ e[q].kind = "dir"
      BY <1>1, TreeIs DEF Bare
<1>4. IsTree(e)
      BY <1>2, <1>3, TreeIs
<1>. QED BY <1>4 DEF e

LEMMA FileIsBare == ASSUME NEW d, IsTree(d), NEW p \in Places, p \in DOMAIN d => d[p].kind # "dir"
                    PROVE Bare(d, p)
BY TreeIs DEF Bare

-----------------------------------------------------------------------------
(* A path that leads through no symlink is where it says.                  *)

HasFirst(S) == \E n \in S : \A m \in S : n <= m
LEMMA First == ASSUME NEW S \in SUBSET Nat, S # {} PROVE HasFirst(S)
<1>. DEFINE T == {0 .. n : n \in S}
<1>1. T \subseteq FiniteSubsetsOf(Nat)
  <2>. SUFFICES ASSUME NEW n \in S PROVE 0 .. n \in FiniteSubsetsOf(Nat)
       OBVIOUS
  <2>1. IsFiniteSet(0 .. n)
        BY FS_Interval
  <2>. QED BY <2>1 DEF FiniteSubsetsOf
<1>2. PICK x \in T : \A y \in T : <<y, x>> \notin StrictSubsetOrdering(Nat)
  <2>1. T # {}
        OBVIOUS
  <2>. HIDE DEF T
  <2>. QED BY <1>1, <2>1, FS_StrictSubsetOrderingWellFounded, WFMin, Zenon
<1>3. PICK n \in S : x = 0 .. n
      OBVIOUS
<1>4. ASSUME NEW m \in S PROVE n <= m
  <2>. SUFFICES ASSUME m < n PROVE FALSE
       OBVIOUS
  <2>1. 0 .. m \in T /\ 0 .. m \subseteq x /\ n \in x /\ n \notin 0 .. m
        BY <1>3
  <2>2. 0 .. m \in SUBSET Nat /\ x \in SUBSET Nat
        BY <1>3
  <2>3. <<0 .. m, x>> \in StrictSubsetOrdering(Nat)
        BY <2>1, <2>2 DEF StrictSubsetOrdering
  <2>. QED BY <1>2, <2>1, <2>3
<1>. QED BY <1>4 DEF HasFirst

LEMMA RealIs ==
  ASSUME NEW p \in Places,
         \A q \in Places : Under(q, p) /\ q \in DOMAIN disk => disk[q].kind # "link"
  PROVE  Real(p) = p
<1>. DEFINE N == Len(p)
            g == [n \in 0..N |-> SubSeq(p, 1, n)]
            at == CHOOSE f : f = [n \in 0..N |-> IF n = 0 THEN <<>> ELSE Append(Follow(f[n - 1]), p[n])]
<1>0. N \in Nat /\ SubSeq(p, 1, N) = p /\ \A i \in 1..N : p[i] \in Names
      BY LenProperties, SubSeqFull, ElementOfSeq DEF Places
<1>1. Real(p) = at[N]
      BY DEF Real
<1>2. ASSUME NEW n \in 1..N PROVE Append(Follow(SubSeq(p, 1, n - 1)), p[n]) = SubSeq(p, 1, n)
  <2>1. n - 1 \in 0..N /\ n - 1 < N
        BY <1>0
  <2>2. /\ SubSeq(p, 1, n - 1) \in Places /\ Len(SubSeq(p, 1, n - 1)) = n - 1
        BY <2>1, Prefix
  <2>3. Under(SubSeq(p, 1, n - 1), p)
        BY <2>1, <2>2 DEF Under
  <2>4. Follow(SubSeq(p, 1, n - 1)) = SubSeq(p, 1, n - 1)
        BY <2>2, <2>3 DEF Follow, Node, Absent
  <2>5. SubSeq(p, 1, n) = SubSeq(p, 1, n - 1) \o <<p[n]>>
    <3>1. 1 \in 1..N /\ n \in 1..N
          BY <1>0
    <3>. QED BY <3>1, SubSeqRecursiveSecond DEF Places
  <2>6. p[n] \in Names
        BY <1>0
  <2>. QED BY <2>2, <2>4, <2>5, <2>6, AppendIsConcat DEF Places
<1>3. g = [n \in 0..N |-> IF n = 0 THEN <<>> ELSE Append(Follow(g[n - 1]), p[n])]
  <2>1. ASSUME NEW n \in 0..N PROVE g[n] = IF n = 0 THEN <<>> ELSE Append(Follow(g[n - 1]), p[n])
    <3>1. CASE n = 0
          BY <3>1, Empty0
    <3>2. CASE n # 0
      <4>1. n \in 1..N /\ n - 1 \in 0..N
            BY <1>0, <3>2
      <4>. QED BY <1>2, <3>2, <4>1
    <3>. QED BY <3>1, <3>2
  <2>. HIDE DEF N
  <2>. QED BY <2>1
<1>4. at = [n \in 0..N |-> IF n = 0 THEN <<>> ELSE Append(Follow(at[n - 1]), p[n])]
  <2>. HIDE DEF g
  <2>. QED BY <1>3
<1>. HIDE DEF at
<1>5. \A n \in 0..N : at[n] = SubSeq(p, 1, n)
  <2>. DEFINE Bad == {n \in 0..N : at[n] # SubSeq(p, 1, n)}
  <2>. SUFFICES ASSUME Bad # {} PROVE FALSE
       OBVIOUS
  <2>1. Bad \in SUBSET Nat
        BY <1>0
  <2>2. PICK n \in Bad : \A m \in Bad : n <= m
    <3>. HIDE DEF Bad
    <3>. QED BY <2>1, First DEF HasFirst
  <2>3. n \in 0..N /\ at[n] # SubSeq(p, 1, n)
        BY <2>2
  <2>4. CASE n = 0
        BY <1>4, <2>3, <2>4, Empty0
  <2>5. CASE n # 0
    <3>1. n \in 1..N /\ n - 1 \in 0..N /\ ~ (n <= n - 1)
          BY <1>0, <2>3, <2>5
    <3>2. n - 1 \notin Bad
          BY <2>2, <3>1
    <3>3. at[n - 1] = SubSeq(p, 1, n - 1)
          BY <3>1, <3>2
    <3>4. at[n] = Append(Follow(at[n - 1]), p[n])
          BY <1>4, <3>1, <2>5
    <3>. QED BY <1>2, <2>3, <3>1, <3>3, <3>4
  <2>. QED BY <2>4, <2>5
<1>. QED BY <1>0, <1>1, <1>5

-----------------------------------------------------------------------------
(* What is known of a job: where its entries are, and how one gets there.  *)

Folders(j) == {e.path : e \in {x \in ToSet(j.archive) : x.kind = "dir"}}
Reach(j, p) == p \in Places /\ \A q \in Places : Under(q, p) /\ q # <<>> => q \in Ways(j)

LEMMA IndexIs ==
  ASSUME NEW j \in Scenarios
  PROVE  /\ Len(j.archive) \in Nat /\ DOMAIN j.archive = 1..Len(j.archive)
         /\ \A i \in DOMAIN j.archive : j.archive[i] \in ToSet(j.archive)
         /\ \A e \in ToSet(j.archive) : \E i \in DOMAIN j.archive : e = j.archive[i]
<1>1. j.archive \in Seq(ToSet(j.archive))
      BY ExtractAssumption DEF ExtractAssumption
<1>. QED BY <1>1, LenProperties DEF ToSet

LEMMA EntryIs ==
  ASSUME NEW j \in Scenarios, NEW e \in ToSet(j.archive)
  PROVE  /\ e.path \in Plain /\ e.path \in Places /\ e.to \in Places
         /\ e.kind \in {"dir", "file", "link", "hard"}
BY ExtractAssumption, PlainIs DEF ExtractAssumption, Plain

LEMMA BackupIs ==
  ASSUME NEW j \in Scenarios
  PROVE  /\ \A p \in j.backup : p \in Plain /\ p \in Places /\ p # <<>>
         /\ j.near \subseteq Places
BY ExtractAssumption, PlainIs DEF ExtractAssumption, Plain

LEMMA WaysIs ==
  ASSUME NEW j \in Scenarios, NEW a
  PROVE  a \in Ways(j) <=>
           \E p \in {e.path : e \in ToSet(j.archive)} \cup Sources(j) \cup j.backup \cup j.near :
             p \in Places /\ a \in Places /\ a # <<>> /\ Under(a, p)
<1>1. \A p \in {e.path : e \in ToSet(j.archive)} \cup Sources(j) \cup j.backup \cup j.near : p \in Places
      BY EntryIs, BackupIs DEF Sources
<1>. QED BY <1>1, AncestorsOf DEF Ways

LEMMA WaysReach == ASSUME NEW j \in Scenarios, NEW a \in Ways(j) PROVE Reach(j, a) /\ a # <<>>
<1>1. PICK p \in {e.path : e \in ToSet(j.archive)} \cup Sources(j) \cup j.backup \cup j.near :
            p \in Places /\ a \in Places /\ a # <<>> /\ Under(a, p)
      BY WaysIs
<1>2. ASSUME NEW q \in Places, Under(q, a), q # <<>> PROVE q \in Ways(j)
      BY <1>1, <1>2, Transitive, WaysIs
<1>. QED BY <1>1, <1>2 DEF Reach

LEMMA EntryReach ==
  ASSUME NEW j \in Scenarios, NEW e \in ToSet(j.archive)
  PROVE  Reach(j, e.path) /\ (e.kind = "hard" => Reach(j, e.to))
<1>1. e.path \in Places /\ e.to \in Places
      BY EntryIs
<1>2. e.path \in {x.path : x \in ToSet(j.archive)} /\ (e.kind = "hard" => e.to \in Sources(j))
      BY DEF Sources
<1>. QED BY <1>1, <1>2, WaysIs DEF Reach

LEMMA BackupReach ==
  ASSUME NEW j \in Scenarios, NEW p \in j.backup
  PROVE  Reach(j, p) /\ Reach(j, PacnewPath(p)) /\ PacnewPath(p) # <<>> /\ PacnewPath(p) \in Places
<1>1. p \in Plain /\ p \in Places /\ p # <<>>
      BY BackupIs
<1>2. Reach(j, p)
      BY <1>1, WaysIs DEF Reach
<1>. QED BY <1>1, <1>2, PacnewIs DEF Reach

LEMMA NearReach == ASSUME NEW j \in Scenarios, NEW p \in j.near PROVE Reach(j, p)
BY BackupIs, WaysIs DEF Reach

LEMMA FrontReach ==
  ASSUME NEW j \in Scenarios, NEW p, Reach(j, p), p # <<>>
  PROVE  Front(p) \in Places /\ Reach(j, Front(p)) /\ (Front(p) = <<>> \/ Front(p) \in Ways(j))
<1>1. p \in Places
      BY DEF Reach
<1>2. Front(p) \in Places /\ Under(Front(p), p)
      BY <1>1, FrontIs
<1>. QED BY <1>1, <1>2, UnderFront DEF Reach

\* What the proofs build on: a tree, with no symlink on the ways.
Clear(j, d) == \A a \in Ways(j) \cap DOMAIN d : d[a].kind # "link"
Base == job \in Scenarios /\ IsTree(disk) /\ Clear(job, disk)

LEMMA NodeIs ==
  ASSUME Base, NEW p
  PROVE  /\ Node(p) # Absent <=> p \in DOMAIN disk
         /\ Node(p).kind # "none" <=> p \in DOMAIN disk
         /\ p \in DOMAIN disk => p \in Places /\ Node(p) = disk[p] /\ disk[p].kind \in {"dir", "file", "link"}
         /\ p \notin DOMAIN disk => Node(p) = Absent /\ Node(p).kind = "none"
         /\ Node(p).kind # "link" => Follow(p) = p
<1>1. p \in DOMAIN disk => p \in Places /\ disk[p].kind \in {"dir", "file", "link"}
      BY TreeIs DEF Base
<1>2. Absent.kind = "none"
      BY DEF Absent
<1>3. p \in DOMAIN disk => Node(p) = disk[p] /\ Node(p) # Absent
      BY <1>1, <1>2 DEF Node
<1>. QED BY <1>1, <1>2, <1>3 DEF Node, Follow

LEMMA Known ==
  ASSUME Base, NEW p, Reach(job, p)
  PROVE  /\ Real(p) = p /\ Lstat(p) = Node(p) /\ (Taken(p) <=> p \in DOMAIN disk)
         /\ Stat(p) = Node(Follow(p)) /\ (Exists(p) <=> Follow(p) \in DOMAIN disk)
         /\ Empty(p) <=> p \in DOMAIN disk /\ disk[p].kind = "dir" /\ Bare(disk, p)
<1>1. p \in Places
      BY DEF Reach
<1>2. ASSUME NEW q \in Places, Under(q, p), q \in DOMAIN disk PROVE disk[q].kind # "link"
  <2>1. q # <<>> => q \in Ways(job)
        BY <1>2 DEF Reach
  <2>2. disk[<<>>].kind = "dir"
        BY TreeIs DEF Base
  <2>. QED BY <1>2, <2>1, <2>2 DEF Base, Clear
<1>3. Real(p) = p
      BY <1>1, <1>2, RealIs
<1>4. Inside(p, DOMAIN disk) = {} <=> Bare(disk, p)
  <2>1. DOMAIN disk \subseteq Places
        BY TreeIs DEF Base
  <2>. QED BY <1>1, <1>3, <2>1, Below DEF Inside, Bare
<1>5. /\ Node(p) # Absent <=> p \in DOMAIN disk
      /\ Node(Follow(p)) # Absent <=> Follow(p) \in DOMAIN disk
      /\ p \in DOMAIN disk => Node(p) = disk[p]
      /\ p \notin DOMAIN disk => Node(p).kind = "none"
      BY NodeIs
<1>6. Lstat(p) = Node(p) /\ Stat(p) = Node(Follow(p))
      BY <1>3 DEF Lstat, Stat
<1>7. Empty(p) <=> Node(p).kind = "dir" /\ Bare(disk, p)
      BY <1>4, <1>6 DEF Empty
<1>8. Node(p).kind = "dir" <=> p \in DOMAIN disk /\ disk[p].kind = "dir"
      BY <1>5
<1>. QED BY <1>3, <1>5, <1>6, <1>7, <1>8 DEF Taken, Exists

LEMMA WayKnown ==
  ASSUME Base, NEW a, a = <<>> \/ a \in Ways(job)
  PROVE  /\ Reach(job, a) /\ a \in Places /\ Follow(a) = a
         /\ (Stat(a).kind = "dir" <=> a \in DOMAIN disk /\ disk[a].kind = "dir")
         /\ (Exists(a) <=> a \in DOMAIN disk)
<1>1. Reach(job, a) /\ a \in Places
      BY WaysReach, RootIs, NothingUnder DEF Reach, Base
<1>2. Node(a).kind # "link"
      BY NodeIs, TreeIs DEF Base, Clear
<1>3. Follow(a) = a /\ Stat(a) = Node(a)
      BY <1>1, <1>2, NodeIs, Known
<1>. QED BY <1>1, <1>3, NodeIs, Known

LEMMA FrontKnown ==
  ASSUME Base, NEW p, Reach(job, p), p # <<>>
  PROVE  Stat(Front(p)).kind = "dir" <=> Front(p) \in DOMAIN disk /\ disk[Front(p)].kind = "dir"
<1>1. Front(p) = <<>> \/ Front(p) \in Ways(job)
      BY FrontReach DEF Base
<1>. QED BY <1>1, WayKnown

-----------------------------------------------------------------------------
(* A tidy job: what its entries bring is apart from the ways, and from what
   the others bring. *)

Puts(j) == Solid(j) \cup Beside(j)
Makes(j) == Ways(j) \cup Folders(j)
Spots(j, i) == {j.archive[i].path} \cup {PacnewPath(p) : p \in {j.archive[i].path} \cap j.backup}

LEMMA Apart ==
  ASSUME NEW j \in Scenarios, Tidy(j)
  PROVE  /\ Makes(j) \cap Puts(j) = {}
         /\ Solid(j) \cap Beside(j) = {} /\ j.backup \cap Beside(j) = {}
<1>1. \A i \in DOMAIN j.archive, k \in DOMAIN j.archive :
        j.archive[i].path = j.archive[k].path => i = k
      BY DEF Tidy
<1>2. Folders(j) \cap Solid(j) = {}
  <2>. SUFFICES ASSUME NEW d \in ToSet(j.archive), NEW e \in ToSet(j.archive),
                       d.kind = "dir", e.kind # "dir", d.path = e.path
                PROVE  FALSE
       BY DEF Folders, Solid
  <2>1. PICK i \in DOMAIN j.archive : d = j.archive[i]
        BY IndexIs
  <2>2. PICK k \in DOMAIN j.archive : e = j.archive[k]
        BY IndexIs
  <2>. QED BY <1>1, <2>1, <2>2
<1>3. /\ Beside(j) \cap (j.backup \cup {e.path : e \in ToSet(j.archive)}) = {}
      /\ Ways(j) \cap (Solid(j) \cup Beside(j)) = {}
      BY DEF Tidy
<1>4. Folders(j) \cap Beside(j) = {} /\ Solid(j) \cap Beside(j) = {}
      BY <1>3 DEF Folders, Solid
<1>. QED BY <1>2, <1>3, <1>4 DEF Makes, Puts

LEMMA SpotsIs ==
  ASSUME NEW j \in Scenarios, Tidy(j), NEW i \in DOMAIN j.archive
  PROVE  /\ j.archive[i].path \in Places /\ j.archive[i] \in ToSet(j.archive)
         /\ \A q \in Spots(j, i) : q \in Places /\ Reach(j, q)
         /\ j.archive[i].kind # "dir" => j.archive[i].path \in Solid(j) /\ Spots(j, i) \subseteq Puts(j)
         /\ j.archive[i].kind = "dir" => j.archive[i].path \in Folders(j)
         /\ \A k \in DOMAIN j.archive : k # i => Spots(j, i) \cap Spots(j, k) = {}
<1>. DEFINE p == j.archive[i].path
<1>1. j.archive[i] \in ToSet(j.archive) /\ p \in Places /\ Reach(j, p)
      BY IndexIs, EntryIs, EntryReach
<1>2. \A q \in Spots(j, i) : q \in Places /\ Reach(j, q)
      BY <1>1, BackupReach DEF Spots
<1>3. Spots(j, i) \subseteq {p} \cup Beside(j)
      BY DEF Spots, Beside
<1>4. j.archive[i].kind # "dir" => p \in Solid(j)
      BY <1>1 DEF Solid
<1>5. j.archive[i].kind = "dir" => p \in Folders(j)
      BY <1>1 DEF Folders
<1>6. ASSUME NEW k \in DOMAIN j.archive, k # i, NEW q \in Spots(j, i) \cap Spots(j, k) PROVE FALSE
  <2>. DEFINE r == j.archive[k].path
  <2>1. p # r
        BY <1>6 DEF Tidy
  <2>2. p \notin Beside(j) /\ r \notin Beside(j)
    <3>1. j.archive[k] \in ToSet(j.archive)
          BY IndexIs
    <3>. QED BY <1>1, <3>1 DEF Tidy
  <2>3. p \in j.backup /\ r \in j.backup /\ q = PacnewPath(p) /\ q = PacnewPath(r)
        BY <1>6, <2>1, <2>2 DEF Spots, Beside
  <2>. QED BY <2>1, <2>3, BackupIs, PacnewInjective
<1>. QED BY <1>1, <1>2, <1>3, <1>4, <1>5, <1>6 DEF Puts

LEMMA MakesReach ==
  ASSUME NEW j \in Scenarios, NEW p \in Makes(j) \cup Puts(j)
  PROVE  p \in Places /\ Reach(j, p)
<1>1. CASE p \in Ways(j)
      BY <1>1, WaysReach DEF Reach
<1>2. CASE p \in Beside(j)
      BY <1>2, BackupReach DEF Beside
<1>3. CASE p \in Folders(j) \cup Solid(j)
      BY <1>3, EntryReach, EntryIs DEF Folders, Solid
<1>. QED BY <1>1, <1>2, <1>3 DEF Makes, Puts

-----------------------------------------------------------------------------
(* The invariant. An entry is pending until its turn is over.              *)

Working == pc \in {"entries", "links"}
Undoing == pc \in {"undo", "failed"}
Pend == {i \in DOMAIN job.archive : i >= next \/ i \in links}
FrontMade(p) == Front(p) \in DOMAIN disk /\ disk[Front(p)].kind = "dir"

BookOK ==
  /\ pc \in {"check", "refused", "entries", "links", "undo", "done", "failed"}
  /\ pc \notin {"check", "refused"} => \A e \in Entries : e.path # <<>>
  /\ pc \in {"check", "refused"} => created = {} /\ disk = job.disk /\ strays = {} /\ ~made
  /\ next \in Nat \ {0}
  /\ links \subseteq {i \in DOMAIN job.archive : i < next /\ job.archive[i].kind = "hard"}
  /\ pc = "entries" /\ made => next <= Len(job.archive) /\ FrontMade(Entry.path)
  /\ pc \in {"links", "done"} => next > Len(job.archive)
  /\ pc = "done" => links = {}
  /\ pc = "failed" => created = {}
  /\ ~Undoing => torn = {}

\* What is remembered is there; a directory was made on the way of an entry, and
\* the rest is where an entry that is not pending lands.
Rec == [path : Places, isDir : BOOLEAN, displaced : BOOLEAN]
Had == DOMAIN job.disk \cup strays
RecordOK(r) ==
  /\ r \in Rec /\ r.path \in DOMAIN disk
  /\ r.isDir => /\ r.path \in Makes(job) /\ disk[r.path].kind = "dir"
                /\ r.path \notin Had \cup torn /\ ~r.displaced
  /\ ~r.isDir => /\ r.path \in Puts(job) /\ disk[r.path].kind # "dir"
                 /\ \A i \in Pend : r.path \notin Spots(job, i)
                 /\ r.displaced => r.path \in Solid(job) /\ r.path \in Had /\ r.path \notin job.backup
                 /\ ~r.displaced => r.path \notin Had \/ r.path \in Beside(job)
CreatedOK == \A r \in created : RecordOK(r)

\* What is new was remembered, until all that is left are the directories that
\* something else is in.
Excused == strays \cup torn \cup job.foreign
NewOK ==
  \A p \in DOMAIN disk \ DOMAIN job.disk :
    \/ p \in strays \/ \E r \in created : r.path = p
    \/ Undoing /\ p \in Excused
    \/ Undoing /\ (\A r \in created : r.isDir) /\ \E x \in Excused \cap DOMAIN disk : Under(p, x)

\* What was there is there, or will be again.
Kept(p) ==
  /\ p \in DOMAIN disk
  /\ Before(p).kind = "dir" /\ p \notin job.foreign /\ disk[p].kind # "dir"
       => \E r \in created : r.path = p /\ r.displaced
KeptOK == \A p \in Had \ torn : p \in Beside(job) \/ Kept(p)

UnpackInv == Base /\ BookOK /\ CreatedOK /\ NewOK /\ KeptOK /\ ConfigurationWins

-----------------------------------------------------------------------------
(* What a step does to the tree, whichever action it is of.                *)

Leaves == UNCHANGED <<disk, created, strays, torn>> /\ (Undoing => Undoing')

MakesDirs ==
  /\ Working /\ Working' /\ UNCHANGED <<strays, torn>>
  /\ \E M \in SUBSET Makes(job) :
       /\ M \cap DOMAIN disk = {} /\ disk' = WithDirs(disk, M)
       /\ created' = created \cup {Record(q, TRUE, FALSE) : q \in M}

Lands(i, q) ==
  /\ Working /\ i \in Pend /\ job.archive[i].kind # "dir" /\ q \in Spots(job, i)
  /\ q \in job.backup => q \notin DOMAIN disk

PutsNode(i, q) ==
  /\ Lands(i, q) /\ Working' /\ i \notin Pend' /\ UNCHANGED <<strays, torn>>
  /\ \E node : node.kind \in {"file", "link"} /\ disk' = With(disk, q, node)
  /\ created' = created \cup (IF q \in DOMAIN disk /\ disk[q].kind # "dir" /\ q \notin Beside(job) THEN {}
                              ELSE {Record(q, FALSE, q \in DOMAIN disk /\ q \notin Beside(job))})

CutsNode(i, q) ==
  /\ Lands(i, q) /\ Working' /\ q \in Beside(job)
  /\ disk' = Without(disk, q) /\ UNCHANGED <<created, strays, torn>>

Tears(i, q) ==
  /\ Lands(i, q) /\ pc' = "undo"
  /\ disk' = Without(disk, q) \/ disk' = With(disk, q, Torn)
  /\ torn' = torn \cup {q} /\ UNCHANGED <<created, strays>>

TearsDirs ==
  /\ Working /\ pc' = "undo" /\ UNCHANGED <<created, strays>>
  /\ \E M \in SUBSET Makes(job) :
       M \cap DOMAIN disk = {} /\ disk' = WithDirs(disk, M) /\ torn' = torn \cup M

Undoes(r) ==
  /\ pc = "undo" /\ pc' = "undo" /\ r \in created /\ \A s \in created : ~UndoBefore(s, r)
  /\ created' = created \ {r} /\ UNCHANGED <<strays, torn>>
  /\ \/ r.path \in job.foreign /\ disk' = disk
     \/ r.isDir /\ ~Bare(disk, r.path) /\ disk' = disk
     \/ /\ r.path \notin job.foreign
        /\ r.isDir => Bare(disk, r.path)
        /\ disk' = IF r.displaced THEN With(disk, r.path, Dir) ELSE Without(disk, r.path)

Intrudes(p) ==
  /\ pc \in {"entries", "links", "undo"} /\ pc' = pc /\ p \in Places \ DOMAIN disk
  /\ disk' = With(disk, p, Dir) \/ disk' = With(disk, p, StrayFile)
  /\ strays' = strays \cup {p} /\ UNCHANGED <<created, torn>>

Effect ==
  /\ job' = job /\ Base' /\ BookOK' /\ Pend' \subseteq Pend
  /\ \/ Leaves \/ MakesDirs \/ TearsDirs
     \/ \E i \in DOMAIN job.archive : \E q \in Spots(job, i) :
          PutsNode(i, q) \/ CutsNode(i, q) \/ Tears(i, q)
     \/ \E r \in created : Undoes(r)
     \/ \E p \in Places : Intrudes(p)

\* What each effect makes of a tree.
LEMMA TreeAfterDirs ==
  ASSUME Base, Tidy(job), NEW M \in SUBSET Makes(job), M \cap DOMAIN disk = {},
         \A q \in M : \A t \in Places : Under(t, q) => t \in M \/ (t \in DOMAIN disk /\ disk[t].kind = "dir")
  PROVE  IsTree(WithDirs(disk, M)) /\ Clear(job, WithDirs(disk, M))
<1>1. M \in SUBSET Places
      BY MakesReach DEF Base
<1>2. IsTree(WithDirs(disk, M))
      BY <1>1, DirsKeepTree DEF Base
<1>3. Clear(job, WithDirs(disk, M))
      BY DEF Clear, Base, WithDirs, Dir
<1>. QED BY <1>2, <1>3

LEMMA TreeAfterPut ==
  ASSUME Base, Tidy(job), NEW q \in Places, q # <<>>, NEW node, q \in Puts(job) \/ node.kind # "link",
         node.kind \in {"dir", "file", "link"}, FrontMade(q), node.kind = "dir" \/ Bare(disk, q)
  PROVE  IsTree(With(disk, q, node)) /\ Clear(job, With(disk, q, node))
<1>1. IsTree(With(disk, q, node))
      BY PutKeepsTree DEF Base, FrontMade
<1>2. q \in Puts(job) => q \notin Ways(job)
      BY Apart DEF Makes, Base
<1>3. Clear(job, With(disk, q, node))
      BY <1>2 DEF Clear, Base, With
<1>. QED BY <1>1, <1>3

LEMMA TreeAfterCut ==
  ASSUME Base, NEW q \in Places, q # <<>>, Bare(disk, q)
  PROVE  IsTree(Without(disk, q)) /\ Clear(job, Without(disk, q))
BY CutKeepsTree DEF Base, Clear, Without

LEMMA MissingIs ==
  ASSUME Base, Tidy(job), NEW p, Reach(job, p), Steps(p) \subseteq Makes(job), CanMake(p)
  PROVE  /\ \A q \in Missing(p) : q \notin DOMAIN disk /\ Real(q) = q
         /\ Missing(p) \subseteq Makes(job)
         /\ \A q \in Steps(p) \cap Ways(job) : q \in Missing(p) \/ (q \in DOMAIN disk /\ disk[q].kind = "dir")
         /\ \A q \in Missing(p) : \A t \in Places :
              Under(t, q) => t \in Missing(p) \/ (t \in DOMAIN disk /\ disk[t].kind = "dir")
<1>0. p \in Places
      BY DEF Reach
<1>1. ASSUME NEW q \in Missing(p)
      PROVE q \notin DOMAIN disk /\ Real(q) = q /\ q \in Steps(p) /\ q \in Places /\ (Under(q, p) \/ q = p)
  <2>1. q \in Steps(p) /\ ~Exists(q)
        BY <1>1 DEF Missing
  <2>2. q \in Places /\ Reach(job, q) /\ (Under(q, p) \/ q = p)
        BY <1>0, <2>1, MakesReach, StepsOf DEF Base
  <2>3. Real(q) = q /\ Follow(q) \notin DOMAIN disk /\ Stat(q) = Node(Follow(q))
        BY <2>1, <2>2, Known
  <2>4. Stat(q).kind # "dir"
        BY <2>3, NodeIs
  <2>5. ~Taken(q)
        BY <2>1, <2>4 DEF CanMake
  <2>. QED BY <2>1, <2>2, <2>3, <2>5, Known
<1>2. ASSUME NEW q \in Steps(p) \cap Ways(job), q \notin Missing(p)
      PROVE  q \in DOMAIN disk /\ disk[q].kind = "dir"
  <2>1. Exists(q) /\ q \in DOMAIN disk /\ Reach(job, q)
        BY <1>2, WayKnown DEF Missing
  <2>2. Stat(q).kind = "dir"
        BY <1>2, <2>1, Known DEF CanMake
  <2>. QED BY <1>2, <2>2, WayKnown
<1>3. ASSUME NEW q \in Missing(p), NEW t \in Places, Under(t, q), t \notin Missing(p)
      PROVE  t \in DOMAIN disk /\ disk[t].kind = "dir"
  <2>1. CASE t = <<>>
        BY <2>1, TreeIs DEF Base
  <2>2. CASE t # <<>>
    <3>1. Under(t, p)
          BY <1>0, <1>1, <1>3, Transitive
    <3>2. t \in Steps(p) \cap Ways(job)
          BY <1>0, <2>2, <3>1, StepsOf DEF Reach
    <3>. QED BY <1>2, <1>3, <3>2
  <2>. QED BY <2>1, <2>2
<1>. QED BY <1>1, <1>2, <1>3

-----------------------------------------------------------------------------
(* The effect of each action.                                              *)

LEMMA FailBook ==
  ASSUME BookOK, Working, pc' = "undo", UNCHANGED <<job, next, links>>
  PROVE  BookOK' /\ Pend' = Pend
BY DEF BookOK, Working, Undoing, Entries, Pend

LEMMA StillBook ==
  ASSUME BookOK, Working, pc' = pc, UNCHANGED <<job, next, links, torn>>,
         pc = "entries" /\ made' => next <= Len(job.archive) /\ FrontMade(Entry.path)'
  PROVE  BookOK' /\ Pend' = Pend
BY DEF BookOK, Working, Undoing, Entries, Entry, Pend

LEMMA PathIs ==
  ASSUME Base, BookOK, pc \notin {"check", "refused"}, NEW i \in DOMAIN job.archive
  PROVE  /\ job.archive[i].path # <<>> /\ job.archive[i].path \in Places /\ Reach(job, job.archive[i].path)
         /\ job.archive[i] \in ToSet(job.archive)
BY IndexIs, EntryReach DEF BookOK, Reach, Entries, Base

LEMMA NextIs ==
  ASSUME Base, BookOK, next <= Len(job.archive)
  PROVE  next \in DOMAIN job.archive /\ Entry = job.archive[next] /\ next \in Pend
BY IndexIs DEF BookOK, Base, Entry, Pend

LEMMA ParentsDo == ASSUME Base, BookOK, Tidy(job), Parents PROVE Effect
<1>. DEFINE p == Entry.path
            f == Front(p)
<1>0. /\ p # <<>> /\ p \in Places /\ Reach(job, p) /\ Working /\ pc = "entries" /\ next <= Len(job.archive)
      BY NextIs, PathIs DEF Parents, Working
<1>1. /\ f \in Places /\ Reach(job, f) /\ (f = <<>> \/ f \in Ways(job)) /\ Steps(f) \subseteq Ways(job)
  <2>1. Entry \in ToSet(job.archive)
        BY <1>0, NextIs, PathIs
  <2>2. Ancestors(p) \subseteq Ways(job)
        BY <2>1 DEF Ways
  <2>. QED BY <1>0, <2>2, FrontReach DEF Ancestors, Base
<1>. HIDE DEF p, f
<1>2. CASE CanMake(f)
  <2>. DEFINE M == Missing(f)
  <2>1. /\ disk' = WithDirs(disk, {Real(q) : q \in M})
        /\ created' = created \cup {Record(q, TRUE, FALSE) : q \in M}
        /\ made' = TRUE
        /\ UNCHANGED <<job, pc, next, links, installed, pacnew, strays, torn, faults>>
        BY <1>2 DEF Parents, CreateDirs, Quiet, p, f
  <2>2. /\ \A q \in M : q \notin DOMAIN disk /\ Real(q) = q
        /\ M \subseteq Makes(job)
        /\ \A q \in Steps(f) \cap Ways(job) : q \in M \/ (q \in DOMAIN disk /\ disk[q].kind = "dir")
        /\ \A q \in M : \A t \in Places : Under(t, q) => t \in M \/ (t \in DOMAIN disk /\ disk[t].kind = "dir")
        BY <1>1, <1>2, MissingIs DEF Makes
  <2>. HIDE DEF M
  <2>3. M \in SUBSET Makes(job) /\ M \cap DOMAIN disk = {} /\ disk' = WithDirs(disk, M)
        BY <2>1, <2>2
  <2>4. IsTree(disk') /\ Clear(job, disk')
        BY <2>2, <2>3, TreeAfterDirs
  <2>5. Base'
        BY <2>1, <2>4 DEF Base
  <2>6. f \in DOMAIN disk' /\ disk'[f].kind = "dir"
    <3>1. CASE f = <<>>
          BY <2>4, <3>1, TreeIs
    <3>2. CASE f # <<>>
      <4>1. f \in Steps(f) \cap Ways(job)
            BY <1>1, <3>2, StepsOf
      <4>. QED BY <2>2, <2>3, <4>1 DEF WithDirs, Dir
    <3>. QED BY <3>1, <3>2
  <2>7. BookOK' /\ Pend' = Pend
    <3>1. FrontMade(Entry.path)'
          BY <2>1, <2>6 DEF FrontMade, f, p, Entry
    <3>. QED BY <1>0, <2>1, <3>1, StillBook
  <2>8. MakesDirs
        BY <1>0, <2>1, <2>3 DEF MakesDirs, Working
  <2>. QED BY <2>1, <2>5, <2>7, <2>8 DEF Effect
<1>3. CASE ~CanMake(f)
  <2>1. pc' = "undo" /\ UNCHANGED <<job, next, links, disk, created, strays, torn>>
        BY <1>3 DEF Parents, Fails, Quiet, work, p, f
  <2>2. Base' /\ BookOK' /\ Pend' = Pend
        BY <1>0, <2>1, FailBook DEF Base
  <2>3. Leaves
        BY <1>0, <2>1 DEF Leaves, Undoing
  <2>. QED BY <2>1, <2>2, <2>3 DEF Effect
<1>. QED BY <1>2, <1>3

LEMMA IdleDo ==
  ASSUME Base, BookOK, Tidy(job),
         \/ Preflight \/ SecondPass \/ Finish \/ ReadFails \/ RolledBack \/ UNCHANGED unpackVars
  PROVE  Effect
<1>1. UNCHANGED <<job, disk, created, strays, torn, next, links, made>>
      BY DEF Preflight, SecondPass, Finish, ReadFails, RolledBack, unpackVars, work, Quiet, Fault, Fails
<1>2. Base' /\ job' = job /\ Pend' = Pend
      BY <1>1 DEF Base, Pend
<1>3. Undoing => Undoing'
      BY DEF Preflight, SecondPass, Finish, ReadFails, RolledBack, unpackVars, Fault, Fails, Undoing
<1>4. BookOK'
  <2>1. CASE Preflight
    <3>1. pc = "check" /\ pc' \in {"entries", "refused"} /\ (pc' = "entries" => Readable)
          BY <2>1 DEF Preflight
    <3>2. ~Undoing /\ ~Undoing'
          BY <3>1 DEF Undoing
    <3>. QED BY <1>1, <3>1, <3>2 DEF BookOK, Entries, Readable
  <2>2. CASE SecondPass
        BY <1>1, <2>2 DEF SecondPass, BookOK, Entries, Undoing
  <2>3. CASE Finish
        BY <1>1, <2>3 DEF Finish, BookOK, Entries, Undoing
  <2>4. CASE ReadFails
        BY <1>1, <2>4 DEF ReadFails, Fault, Fails, BookOK, Entries, Undoing
  <2>5. CASE RolledBack
        BY <1>1, <2>5 DEF RolledBack, BookOK, Entries, Undoing
  <2>6. CASE UNCHANGED unpackVars
        BY <1>1, <2>6 DEF unpackVars, BookOK, Entries, Entry, FrontMade, Undoing
  <2>. QED BY <2>1, <2>2, <2>3, <2>4, <2>5, <2>6
<1>5. Leaves
      BY <1>1, <1>3 DEF Leaves
<1>. QED BY <1>2, <1>4, <1>5 DEF Effect

LEMMA SkipBook ==
  ASSUME Base, BookOK, pc = "entries", next <= Len(job.archive), Skip, UNCHANGED <<job, pc, torn>>,
         links' = links \/ (links' = links \cup {next} /\ Entry.kind = "hard")
  PROVE  /\ BookOK' /\ Pend' \subseteq Pend
         /\ links' = links => next \notin Pend'
<1>1. next \in DOMAIN job.archive /\ Entry = job.archive[next] /\ DOMAIN job.archive = 1..Len(job.archive)
      BY NextIs, IndexIs DEF Base
<1>2. next' = next + 1 /\ made' = FALSE /\ next \in Nat \ {0} /\ pc' = "entries"
      BY DEF Skip, BookOK
<1>3. links' \subseteq {i \in DOMAIN job'.archive : i < next' /\ job'.archive[i].kind = "hard"}
  <2>1. links \subseteq {i \in DOMAIN job.archive : i < next /\ job.archive[i].kind = "hard"}
        BY DEF BookOK
  <2>. QED BY <1>1, <1>2, <2>1
<1>4. BookOK'
      BY <1>2, <1>3 DEF BookOK, Entries, Undoing
<1>5. Pend' \subseteq Pend
      BY <1>1, <1>2 DEF Pend
<1>6. next \notin links
      BY <1>2 DEF BookOK
<1>7. links' = links => next \notin Pend'
      BY <1>2, <1>6 DEF Pend
<1>. QED BY <1>4, <1>5, <1>7

LEMMA UnpackDirDo ==
  ASSUME Base, BookOK, Tidy(job), pc = "entries", next <= Len(job.archive), made, UnpackDir, Quiet
  PROVE  Effect
<1>. DEFINE p == Entry.path
<1>0. /\ p # <<>> /\ p \in Places /\ Reach(job, p) /\ Working /\ Entry \in ToSet(job.archive)
      BY NextIs, PathIs DEF Working
<1>1. Steps(p) \subseteq Makes(job)
  <2>1. p \in Folders(job)
        BY <1>0 DEF UnpackDir, Folders
  <2>. QED BY <1>0, <2>1, StepsOf DEF Reach, Makes
<1>2. CASE CanMake(p)
  <2>. DEFINE M == Missing(p)
  <2>1. /\ disk' = WithDirs(disk, {Real(q) : q \in M})
        /\ created' = created \cup {Record(q, TRUE, FALSE) : q \in M}
        /\ Skip /\ UNCHANGED <<job, pc, links, strays, torn>>
        BY <1>2 DEF UnpackDir, CreateDirs, Done, Quiet
  <2>. HIDE DEF p
  <2>2. /\ \A q \in M : q \notin DOMAIN disk /\ Real(q) = q
        /\ M \subseteq Makes(job)
        /\ \A q \in M : \A t \in Places : Under(t, q) => t \in M \/ (t \in DOMAIN disk /\ disk[t].kind = "dir")
        BY <1>0, <1>1, <1>2, MissingIs
  <2>. HIDE DEF M
  <2>3. M \in SUBSET Makes(job) /\ M \cap DOMAIN disk = {} /\ disk' = WithDirs(disk, M)
        BY <2>1, <2>2
  <2>4. Base'
        BY <2>1, <2>2, <2>3, TreeAfterDirs DEF Base
  <2>5. BookOK' /\ Pend' \subseteq Pend
        BY <2>1, SkipBook
  <2>6. MakesDirs
        BY <1>0, <2>1, <2>3 DEF MakesDirs, Working
  <2>. QED BY <2>1, <2>4, <2>5, <2>6 DEF Effect
<1>3. CASE ~CanMake(p)
  <2>1. pc' = "undo" /\ UNCHANGED <<job, next, links, disk, created, strays, torn>>
        BY <1>3 DEF UnpackDir, Fails, Quiet, work
  <2>2. Base' /\ BookOK' /\ Pend' = Pend
        BY <1>0, <2>1, FailBook DEF Base
  <2>3. Leaves
        BY <1>0, <2>1 DEF Leaves, Undoing
  <2>. QED BY <2>1, <2>2, <2>3 DEF Effect
<1>. QED BY <1>2, <1>3

LEMMA DeferLinkDo ==
  ASSUME Base, BookOK, Tidy(job), pc = "entries", next <= Len(job.archive), DeferLink, Quiet
  PROVE  Effect
<1>1. UNCHANGED <<job, disk, pc, created, strays, torn>> /\ Skip /\ links' = links \cup {next} /\ Entry.kind = "hard"
      BY DEF DeferLink, Quiet
<1>2. BookOK' /\ Pend' \subseteq Pend
      BY <1>1, SkipBook
<1>. QED BY <1>1, <1>2 DEF Effect, Leaves, Base, Undoing

LEMMA LandingIs ==
  ASSUME Base, BookOK, Tidy(job), pc \notin {"check", "refused"}, NEW i \in DOMAIN job.archive
  PROVE  LET p == job.archive[i].path
             q == Landing(p)
         IN  /\ q \in Spots(job, i) /\ q \in Places /\ q # <<>> /\ Reach(job, q) /\ Front(q) = Front(p)
             /\ q \in job.backup => q \notin DOMAIN disk
             /\ p \in job.backup /\ p \in DOMAIN disk => Spared(p) /\ q = PacnewPath(p) /\ q \in Beside(job)
             /\ p \notin job.backup \/ p \notin DOMAIN disk => ~Spared(p) /\ q = p /\ q \notin Beside(job)
<1>. DEFINE p == job.archive[i].path
            q == Landing(p)
<1>1. p # <<>> /\ p \in Places /\ Reach(job, p) /\ job.archive[i] \in ToSet(job.archive)
      BY PathIs
<1>2. p \notin Beside(job)
      BY <1>1 DEF Tidy
<1>. HIDE DEF p
<1>3. Taken(p) <=> p \in DOMAIN disk
      BY <1>1, Known
<1>4. CASE Spared(p)
  <2>1. p \in job.backup /\ p \in DOMAIN disk /\ q = PacnewPath(p)
        BY <1>3, <1>4 DEF Spared, Landing
  <2>2. q \in Beside(job) /\ q \in Spots(job, i)
        BY <2>1 DEF Beside, Spots, p
  <2>3. q \in Places /\ q # <<>> /\ Reach(job, q) /\ Front(q) = Front(p)
        BY <2>1, BackupReach, BackupIs, PacnewIs DEF Base
  <2>4. q \notin job.backup
        BY <2>2, Apart DEF Base
  <2>. HIDE DEF q
  <2>. QED BY <1>4, <2>1, <2>2, <2>3, <2>4 DEF p, q
<1>5. CASE ~Spared(p)
  <2>1. q = p /\ (p \notin job.backup \/ p \notin DOMAIN disk)
        BY <1>3, <1>5 DEF Spared, Landing
  <2>2. q \in Spots(job, i)
        BY <2>1 DEF Spots, p
  <2>. HIDE DEF q
  <2>. QED BY <1>1, <1>2, <1>5, <2>1, <2>2 DEF p, q
<1>. QED BY <1>4, <1>5

LEMMA BareIs ==
  ASSUME Base, NEW q, Reach(job, q), Lstat(q).kind # "dir" \/ Empty(q)
  PROVE  Bare(disk, q)
<1>1. q \in Places
      BY DEF Reach
<1>2. CASE Empty(q)
      BY <1>2, Known
<1>3. CASE Lstat(q).kind # "dir"
  <2>1. q \in DOMAIN disk => disk[q].kind # "dir"
        BY <1>3, Known, NodeIs
  <2>. QED BY <1>1, <2>1, FileIsBare DEF Base
<1>. QED BY <1>2, <1>3

\* The tree and the records after an entry landed.
LEMMA PlaceDo ==
  ASSUME Base, BookOK, Tidy(job), Working, NEW i \in Pend, job.archive[i].kind # "dir",
         NEW node, node.kind \in {"file", "link"}, FrontMade(job.archive[i].path),
         ~Blocked(job.archive[i]), Place(job.archive[i].path, node),
         UNCHANGED <<job, pc, strays, torn>>, i \notin Pend'
  PROVE  /\ Base'
         /\ LET q == Landing(job.archive[i].path)
            IN  /\ q \in Spots(job, i) /\ (PutsNode(i, q) \/ CutsNode(i, q))
                /\ disk' = With(disk, q, node) \/ disk' = Without(disk, q)
<1>. DEFINE e == job.archive[i]
            p == e.path
            q == Landing(p)
<1>0. i \in DOMAIN job.archive /\ pc \notin {"check", "refused"} /\ Working'
      BY DEF Pend, Working
<1>1. /\ q \in Spots(job, i) /\ q \in Places /\ q # <<>> /\ Reach(job, q) /\ Front(q) = Front(p)
      /\ q \in job.backup => q \notin DOMAIN disk
      /\ p \in job.backup /\ p \in DOMAIN disk => Spared(p) /\ q = PacnewPath(p) /\ q \in Beside(job)
      /\ p \notin job.backup \/ p \notin DOMAIN disk => ~Spared(p) /\ q = p /\ q \notin Beside(job)
      BY <1>0, LandingIs
<1>2. q \in Puts(job)
      BY <1>0, <1>1, SpotsIs DEF Base
<1>3. e.kind \in {"file", "link", "hard"}
      BY <1>0, PathIs, EntryIs DEF Base
<1>4. Bare(disk, q)
  <2>1. Lstat(q).kind # "dir" \/ Empty(q)
        BY <1>3 DEF Blocked
  <2>. QED BY <1>1, <2>1, BareIs
<1>5. FrontMade(q)
      BY <1>1 DEF FrontMade
<1>6. /\ Real(q) = q /\ Lstat(q) = Node(q) /\ (Taken(q) <=> q \in DOMAIN disk)
      /\ Node(q).kind = "dir" <=> q \in DOMAIN disk /\ disk[q].kind = "dir"
      BY <1>1, Known, NodeIs
<1>7. Lands(i, q)
      BY <1>1 DEF Lands
<1>8. Place(p, node)
      OBVIOUS
<1>. HIDE DEF q, p, e
<1>9. /\ IsTree(With(disk, q, node)) /\ Clear(job, With(disk, q, node))
      /\ IsTree(Without(disk, q)) /\ Clear(job, Without(disk, q))
      BY <1>1, <1>2, <1>4, <1>5, TreeAfterPut, TreeAfterCut
<1>10. CASE Spared(p)
  <2>1. q = PacnewPath(p) /\ q \in Beside(job)
        BY <1>1, <1>10
  <2>2. WriteBeside(p, node)
        BY <1>8, <1>10 DEF Place
  <2>3. \/ disk' = Without(disk, q) /\ UNCHANGED created
        \/ disk' = With(disk, q, node) /\ created' = created \cup {Record(q, FALSE, FALSE)}
        BY <1>6, <2>1, <2>2 DEF WriteBeside
  <2>4. PutsNode(i, q) \/ CutsNode(i, q)
    <3>1. UNCHANGED <<strays, torn>> /\ (q \in DOMAIN disk /\ q \notin Beside(job)) = FALSE
          BY <2>1
    <3>2. disk' = With(disk, q, node) => \E n : n.kind \in {"file", "link"} /\ disk' = With(disk, q, n)
          OBVIOUS
    <3>. QED BY <1>0, <1>7, <2>1, <2>3, <3>1, <3>2 DEF PutsNode, CutsNode
  <2>. QED BY <1>1, <1>9, <2>3, <2>4 DEF Base, q, p, e
<1>11. CASE ~Spared(p)
  <2>1. q = p /\ q \notin Beside(job)
        BY <1>1, <1>11
  <2>2. Write(p, node)
        BY <1>8, <1>11 DEF Place
  <2>3. /\ disk' = With(disk, q, node)
        /\ created' = IF ~Taken(q) \/ Lstat(q).kind = "dir"
                      THEN created \cup {Record(q, FALSE, Lstat(q).kind = "dir")} ELSE created
        BY <1>6, <2>1, <2>2 DEF Write
  <2>4. created' = created \cup (IF q \in DOMAIN disk /\ disk[q].kind # "dir" /\ q \notin Beside(job) THEN {}
                                 ELSE {Record(q, FALSE, q \in DOMAIN disk /\ q \notin Beside(job))})
    <3>1. CASE q \notin DOMAIN disk
      <4>1. (Lstat(q).kind = "dir") = FALSE /\ ~Taken(q) /\ (q \in DOMAIN disk /\ q \notin Beside(job)) = FALSE
            BY <1>6, <3>1
      <4>. QED BY <2>3, <3>1, <4>1
    <3>2. CASE q \in DOMAIN disk /\ disk[q].kind = "dir"
      <4>1. (Lstat(q).kind = "dir") = TRUE /\ (q \in DOMAIN disk /\ q \notin Beside(job)) = TRUE
            BY <1>6, <2>1, <3>2
      <4>. QED BY <2>3, <3>2, <4>1
    <3>3. CASE q \in DOMAIN disk /\ disk[q].kind # "dir"
          BY <1>6, <2>1, <2>3, <3>3
    <3>. QED BY <3>1, <3>2, <3>3
  <2>5. PutsNode(i, q)
    <3>1. UNCHANGED <<strays, torn>>
          OBVIOUS
    <3>2. \E n : n.kind \in {"file", "link"} /\ disk' = With(disk, q, n)
          BY <2>3
    <3>. QED BY <1>0, <1>7, <2>4, <3>1, <3>2, Zenon DEF PutsNode
  <2>. QED BY <1>1, <1>9, <2>3, <2>5 DEF Base, q, p, e
<1>. QED BY <1>10, <1>11

LEMMA UnpackFileDo ==
  ASSUME Base, BookOK, Tidy(job), pc = "entries", next <= Len(job.archive), made, UnpackFile, Quiet
  PROVE  Effect
<1>0. /\ next \in DOMAIN job.archive /\ Entry = job.archive[next] /\ next \in Pend /\ Working
      /\ FrontMade(job.archive[next].path) /\ job.archive[next].kind \in {"file", "link"}
  <2>1. FrontMade(Entry.path)
        BY DEF BookOK
  <2>. QED BY <2>1, NextIs DEF UnpackFile, Working
<1>1. CASE InPlace(Entry) /\ Done(Entry.path) /\ UNCHANGED <<disk, created, pacnew>>
  <2>1. UNCHANGED <<job, disk, pc, created, strays, torn, links>> /\ Skip
        BY <1>1 DEF Done, Quiet
  <2>2. BookOK' /\ Pend' \subseteq Pend
        BY <2>1, SkipBook
  <2>. QED BY <2>1, <2>2 DEF Effect, Leaves, Base, Undoing
<1>2. CASE Fails /\ UNCHANGED disk
  <2>1. pc' = "undo" /\ UNCHANGED <<job, next, links, disk, created, strays, torn>>
        BY <1>2 DEF Fails, Quiet, work
  <2>2. Base' /\ BookOK' /\ Pend' = Pend
        BY <1>0, <2>1, FailBook DEF Base
  <2>3. Leaves
        BY <1>0, <2>1 DEF Leaves, Undoing
  <2>. QED BY <2>1, <2>2, <2>3 DEF Effect
<1>3. CASE ~InPlace(Entry) /\ ~Blocked(Entry) /\ Place(Entry.path, Shipped(Entry)) /\ Done(Entry.path)
  <2>1. UNCHANGED <<job, pc, strays, torn, links>> /\ Skip
        BY <1>3 DEF Done, Quiet
  <2>2. BookOK' /\ Pend' \subseteq Pend /\ next \notin Pend'
        BY <2>1, SkipBook
  <2>3. Shipped(Entry).kind \in {"file", "link"}
        BY <1>0 DEF Shipped
  <2>4. /\ ~Blocked(job.archive[next]) /\ Place(job.archive[next].path, Shipped(Entry))
        /\ job.archive[next].kind # "dir"
        BY <1>0, <1>3
  <2>. DEFINE q == Landing(job.archive[next].path)
  <2>5. Base' /\ q \in Spots(job, next) /\ (PutsNode(next, q) \/ CutsNode(next, q))
        BY <1>0, <2>1, <2>2, <2>3, <2>4, PlaceDo
  <2>. HIDE DEF q
  <2>. QED BY <1>0, <2>1, <2>2, <2>5 DEF Effect
<1>. QED BY <1>1, <1>2, <1>3 DEF UnpackFile

LEMMA TurnIs ==
  ASSUME Base, BookOK, NEW i \in DOMAIN job.archive, Turn(i)
  PROVE  /\ pc = "links" /\ Working /\ i \in Pend /\ i \in links /\ job.archive[i].kind = "hard"
         /\ job.archive[i] \in ToSet(job.archive) /\ next > Len(job.archive)
BY IndexIs DEF Turn, BookOK, Base, Working, Pend

LEMMA HardIs ==
  ASSUME Base, BookOK, Tidy(job), pc = "links", NEW i \in DOMAIN job.archive, job.archive[i].kind = "hard",
         ~Blocked(job.archive[i])
  PROVE  /\ FrontMade(job.archive[i].path) /\ LinkSource(job.archive[i]).kind \in {"file", "link"}
         /\ LinkSource(job.archive[i]) = Node(job.archive[i].to)
<1>. DEFINE e == job.archive[i]
            q == Landing(e.path)
<1>1. /\ q \in Spots(job, i) /\ q \in Places /\ q # <<>> /\ Reach(job, q) /\ Front(q) = Front(e.path)
      BY LandingIs
<1>2. Reach(job, e.to)
      BY IndexIs, EntryReach DEF Base
<1>3. Stat(Front(q)).kind = "dir" /\ LinkSource(e).kind \notin {"none", "dir"}
      BY DEF Blocked
<1>. HIDE DEF q, e
<1>4. FrontMade(e.path)
      BY <1>1, <1>3, FrontKnown DEF FrontMade
<1>5. LinkSource(e) = Node(e.to)
      BY <1>2, Known DEF LinkSource
<1>6. LinkSource(e).kind \in {"file", "link"}
      BY <1>3, <1>5, NodeIs
<1>. QED BY <1>4, <1>5, <1>6 DEF e

LEMMA LinkedBook ==
  ASSUME Base, BookOK, NEW i \in DOMAIN job.archive, Turn(i), Linked(i)
  PROVE  BookOK' /\ Pend' \subseteq Pend /\ i \notin Pend'
<1>1. i \notin Pend'
  <2>1. i <= Len(job.archive) /\ next > Len(job.archive) /\ Len(job.archive) \in Nat /\ i \in Nat /\ next \in Nat
        BY TurnIs, IndexIs DEF Base, BookOK
  <2>2. job' = job /\ next' = next /\ links' = links \ {i}
        BY DEF Linked
  <2>3. ~ (i >= next)
        BY <2>1
  <2>. QED BY <2>2, <2>3 DEF Pend
<1>2. BookOK'
      BY TurnIs DEF BookOK, Linked, Entries, Entry, Undoing
<1>. QED BY <1>1, <1>2 DEF Pend, Linked

LEMMA HardLinkDo ==
  ASSUME Base, BookOK, Tidy(job), NEW i \in DOMAIN job.archive, HardLink(i)
  PROVE  Effect
<1>. DEFINE e == job.archive[i]
            q == Landing(e.path)
<1>0. /\ pc = "links" /\ Working /\ i \in Pend /\ i \in links /\ e.kind = "hard" /\ Turn(i)
      /\ e \in ToSet(job.archive)
      BY TurnIs DEF HardLink
<1>1. UNCHANGED strays
      BY DEF HardLink
<1>2. CASE InPlace(e) /\ Linked(i) /\ UNCHANGED <<disk, created, pacnew>>
  <2>1. BookOK' /\ Pend' \subseteq Pend
        BY <1>0, <1>2, LinkedBook
  <2>2. UNCHANGED <<job, disk, pc, created, strays, torn>>
        BY <1>1, <1>2 DEF Linked
  <2>. QED BY <2>1, <2>2 DEF Effect, Leaves, Base, Undoing
<1>3. CASE /\ ~InPlace(e) /\ Blocked(e) /\ Fails
           /\ IF Lstat(q).kind = "dir" THEN UNCHANGED <<disk, torn>>
              ELSE disk' = Without(disk, Real(q)) /\ torn' = torn \cup {Real(q)}
  <2>1. pc' = "undo" /\ UNCHANGED <<job, next, links, created, strays>>
        BY <1>1, <1>3 DEF Fails, work
  <2>2. BookOK' /\ Pend' = Pend
        BY <1>0, <2>1, FailBook
  <2>3. CASE Lstat(q).kind = "dir"
    <3>1. UNCHANGED <<disk, torn>>
          BY <1>3, <2>3
    <3>. QED BY <1>0, <2>1, <2>2, <3>1 DEF Effect, Leaves, Base, Undoing, Working
  <2>4. CASE Lstat(q).kind # "dir"
    <3>1. disk' = Without(disk, Real(q)) /\ torn' = torn \cup {Real(q)}
          BY <1>3, <2>4
    <3>2. /\ q \in Spots(job, i) /\ q \in Places /\ q # <<>> /\ Reach(job, q)
          /\ q \in job.backup => q \notin DOMAIN disk
          BY <1>0, LandingIs
    <3>. HIDE DEF q
    <3>3. Real(q) = q /\ Bare(disk, q)
          BY <2>4, <3>2, BareIs, Known
    <3>4. Base'
          BY <2>1, <3>1, <3>2, <3>3, TreeAfterCut DEF Base
    <3>5. Tears(i, q)
          BY <1>0, <2>1, <3>1, <3>2, <3>3 DEF Tears, Lands
    <3>. QED BY <2>1, <2>2, <3>2, <3>4, <3>5 DEF Effect
  <2>. QED BY <2>3, <2>4
<1>4. CASE ~InPlace(e) /\ ~Blocked(e) /\ Place(e.path, LinkSource(e)) /\ Linked(i)
  <2>1. BookOK' /\ Pend' \subseteq Pend /\ i \notin Pend'
        BY <1>0, <1>4, LinkedBook
  <2>2. UNCHANGED <<job, pc, strays, torn>>
        BY <1>1, <1>4 DEF Linked
  <2>3. FrontMade(e.path) /\ LinkSource(e).kind \in {"file", "link"}
        BY <1>0, <1>4, HardIs
  <2>4. Base' /\ q \in Spots(job, i) /\ (PutsNode(i, q) \/ CutsNode(i, q))
        BY <1>0, <1>4, <2>1, <2>2, <2>3, PlaceDo
  <2>. HIDE DEF q
  <2>. QED BY <2>1, <2>2, <2>4 DEF Effect
<1>. QED BY <1>2, <1>3, <1>4 DEF HardLink

LEMMA MakeDirFailsDo == ASSUME Base, BookOK, Tidy(job), MakeDirFails PROVE Effect
<1>. DEFINE p == IF made THEN Entry.path ELSE Front(Entry.path)
<1>0. /\ pc = "entries" /\ Working /\ next <= Len(job.archive)
      /\ Entry.path # <<>> /\ Entry.path \in Places /\ Reach(job, Entry.path) /\ Entry \in ToSet(job.archive)
      /\ CanMake(p) /\ (made => Entry.kind = "dir")
      BY NextIs, PathIs DEF MakeDirFails, Working
<1>1. PICK q \in Missing(p) :
        LET some == {Real(s) : s \in {t \in Missing(p) : Len(t) < Len(q)}} IN
        disk' = WithDirs(disk, some) /\ torn' = torn \cup some
      BY DEF MakeDirFails
<1>2. pc' = "undo" /\ UNCHANGED <<job, next, links, created, strays>>
      BY DEF MakeDirFails, Fault, Fails, work
<1>3. Reach(job, p) /\ Steps(p) \subseteq Makes(job)
  <2>1. CASE made
    <3>1. Entry.path \in Folders(job)
          BY <1>0, <2>1 DEF Folders
    <3>. QED BY <1>0, <2>1, <3>1, StepsOf DEF Reach, Makes
  <2>2. CASE ~made
    <3>1. Ancestors(Entry.path) \subseteq Ways(job)
          BY <1>0 DEF Ways
    <3>. QED BY <1>0, <2>2, <3>1, FrontReach DEF Ancestors, Base, Makes
  <2>. QED BY <2>1, <2>2
<1>. DEFINE M == {t \in Missing(p) : Len(t) < Len(q)}
<1>. HIDE DEF p
<1>4. /\ \A t \in Missing(p) : t \notin DOMAIN disk /\ Real(t) = t /\ t \in Places
      /\ Missing(p) \subseteq Makes(job)
      /\ \A t \in Missing(p) : \A s \in Places :
           Under(s, t) => s \in Missing(p) \/ (s \in DOMAIN disk /\ disk[s].kind = "dir")
      BY <1>0, <1>3, MissingIs, MakesReach DEF Base
<1>5. {Real(s) : s \in M} = M /\ M \in SUBSET Makes(job) /\ M \cap DOMAIN disk = {}
      BY <1>4
<1>6. disk' = WithDirs(disk, M) /\ torn' = torn \cup M
      BY <1>1, <1>5
<1>7. ASSUME NEW t \in M, NEW s \in Places, Under(s, t)
      PROVE  s \in M \/ (s \in DOMAIN disk /\ disk[s].kind = "dir")
  <2>1. Len(s) < Len(t) /\ Len(t) < Len(q) /\ Len(s) \in Nat /\ Len(t) \in Nat /\ Len(q) \in Nat
        BY <1>4, <1>7, Lengths DEF Under
  <2>2. Len(s) < Len(q)
        BY <2>1
  <2>. QED BY <1>4, <1>7, <2>2
<1>. HIDE DEF M
<1>8. Base'
      BY <1>2, <1>5, <1>6, <1>7, TreeAfterDirs DEF Base
<1>9. BookOK' /\ Pend' = Pend
      BY <1>0, <1>2, FailBook
<1>10. TearsDirs
      BY <1>0, <1>2, <1>5, <1>6 DEF TearsDirs
<1>. QED BY <1>2, <1>8, <1>9, <1>10 DEF Effect

LEMMA WriteFailsDo == ASSUME Base, BookOK, Tidy(job), WriteFails PROVE Effect
<1>1. PICK i \in DOMAIN job.archive :
        LET e == job.archive[i] q == Landing(e.path) IN
       /\ \/ pc = "entries" /\ made /\ i = next /\ e.kind \in {"file", "link"}
          \/ Turn(i)
       /\ ~InPlace(e) /\ ~Blocked(e)
       /\ torn' = torn \cup {Real(q)}
       /\ \/ disk' = Without(disk, Real(q))
          \/ e.kind # "link" /\ disk' = With(disk, Real(q), Torn)
      BY DEF WriteFails
<1>. DEFINE e == job.archive[i]
            q == Landing(e.path)
<1>2. pc' = "undo" /\ UNCHANGED <<job, next, links, created, strays>>
      BY DEF WriteFails, Fault, Fails, work
<1>3. /\ Working /\ i \in Pend /\ FrontMade(e.path) /\ e.kind \in {"file", "link", "hard"}
  <2>1. CASE pc = "entries" /\ made /\ i = next /\ e.kind \in {"file", "link"}
    <3>1. FrontMade(Entry.path) /\ next <= Len(job.archive)
          BY <2>1 DEF BookOK
    <3>. QED BY <2>1, <3>1, NextIs DEF Working, Entry
  <2>2. CASE Turn(i)
        BY <1>1, <2>2, TurnIs, HardIs
  <2>. QED BY <1>1, <2>1, <2>2
<1>4. /\ q \in Spots(job, i) /\ q \in Places /\ q # <<>> /\ Reach(job, q) /\ Front(q) = Front(e.path)
      /\ q \in job.backup => q \notin DOMAIN disk
      BY <1>3, LandingIs DEF Working
<1>5. Lstat(q).kind # "dir" \/ Empty(q)
      BY <1>1, <1>3 DEF Blocked
<1>6. /\ torn' = torn \cup {Real(q)}
      /\ disk' = Without(disk, Real(q)) \/ disk' = With(disk, Real(q), Torn)
      BY <1>1
<1>7. q \in Puts(job)
      BY <1>3, <1>4, SpotsIs DEF Base
<1>. HIDE DEF q, e
<1>8. Real(q) = q /\ Bare(disk, q) /\ FrontMade(q)
      BY <1>3, <1>4, <1>5, BareIs, Known DEF FrontMade
<1>9. Base'
  <2>1. Torn.kind = "file"
        BY DEF Torn
  <2>2. IsTree(disk') /\ Clear(job, disk')
        BY <1>4, <1>6, <1>7, <1>8, <2>1, TreeAfterCut, TreeAfterPut
  <2>. QED BY <1>2, <2>2 DEF Base
<1>10. BookOK' /\ Pend' = Pend
      BY <1>2, <1>3, FailBook
<1>11. Tears(i, q)
      BY <1>2, <1>3, <1>4, <1>6, <1>8 DEF Tears, Lands, e
<1>. QED BY <1>2, <1>4, <1>9, <1>10, <1>11 DEF Effect

LEMMA RollBackDo ==
  ASSUME Base, BookOK, Tidy(job), CreatedOK, NEW r \in created, RollBack(r)
  PROVE  Effect
<1>. DEFINE p == r.path
<1>1. /\ pc = "undo" /\ \A s \in created : ~UndoBefore(s, r)
      /\ created' = created \ {r} /\ UNCHANGED <<job, pc, next, made, links, strays, torn>>
      /\ disk' = IF p \in job.foreign \/ ~Removable(r) THEN disk
                 ELSE IF r.displaced THEN With(disk, Real(p), Dir) ELSE Without(disk, Real(p))
      BY DEF RollBack, Quiet
<1>2. RecordOK(r)
      BY DEF CreatedOK
<1>3. /\ p \in DOMAIN disk /\ p \in Places /\ Reach(job, p) /\ r.isDir \in BOOLEAN
      /\ r.isDir <=> disk[p].kind = "dir"
      /\ r.displaced => ~r.isDir
      BY <1>2, MakesReach DEF RecordOK, Rec, Base
<1>4. /\ Real(p) = p /\ Lstat(p) = disk[p] /\ disk[p].kind \in {"dir", "file", "link"}
      /\ Empty(p) <=> disk[p].kind = "dir" /\ Bare(disk, p)
      BY <1>3, Known, NodeIs
<1>5. Removable(r) <=> (r.isDir => Bare(disk, p))
      BY <1>3, <1>4 DEF Removable
<1>6. Removable(r) => Bare(disk, p)
      BY <1>3, <1>5, FileIsBare DEF Base
<1>7. CASE p \in job.foreign \/ ~Removable(r)
  <2>1. disk' = disk
        BY <1>1, <1>7
  <2>2. Undoes(r)
        BY <1>1, <1>5, <1>7, <2>1 DEF Undoes
  <2>3. Base' /\ BookOK' /\ Pend' = Pend
        BY <1>1, <2>1 DEF Base, BookOK, Entries, Undoing, Pend
  <2>. QED BY <1>1, <2>2, <2>3 DEF Effect
<1>8. CASE p \notin job.foreign /\ Removable(r)
  <2>1. disk' = IF r.displaced THEN With(disk, p, Dir) ELSE Without(disk, p)
        BY <1>1, <1>4, <1>8
  <2>2. Undoes(r)
        BY <1>1, <1>5, <1>8, <2>1 DEF Undoes
  <2>3. BookOK' /\ Pend' = Pend
        BY <1>1 DEF BookOK, Entries, Undoing, Pend
  <2>. HIDE DEF p
  <2>4. p = <<>> => r.isDir /\ p \in Makes(job) /\ p \notin DOMAIN job.disk
        BY <1>2, <1>3, TreeIs DEF RecordOK, Had, Base, p
  <2>5. p # <<>>
        BY <2>4, TreeIs, ExtractAssumption DEF ExtractAssumption, Base
  <2>6. IsTree(Without(disk, p)) /\ Clear(job, Without(disk, p))
        BY <1>3, <1>6, <1>8, <2>5, TreeAfterCut
  <2>7. IsTree(With(disk, p, Dir)) /\ Clear(job, With(disk, p, Dir))
    <3>1. Front(p) \in Places /\ Under(Front(p), p)
          BY <1>3, <2>5, FrontIs
    <3>2. FrontMade(p)
          BY <1>3, <3>1, TreeIs DEF FrontMade, Base
    <3>3. Dir.kind = "dir"
          BY DEF Dir
    <3>. QED BY <1>3, <2>5, <3>2, <3>3, TreeAfterPut
  <2>8. Base'
        BY <1>1, <2>1, <2>6, <2>7 DEF Base
  <2>. QED BY <1>1, <2>2, <2>3, <2>8 DEF Effect
<1>. QED BY <1>7, <1>8

LEMMA StrangerDo ==
  ASSUME Base, BookOK, Tidy(job), NEW p \in job.near, NEW node \in {Dir, StrayFile}, Stranger(p, node)
  PROVE  Effect
<1>1. /\ pc \notin Over \cup {"check"} /\ ~Taken(p) /\ Stat(Front(p)).kind = "dir"
      /\ disk' = With(disk, Real(p), node) /\ strays' = strays \cup {p}
      /\ UNCHANGED <<job, pc, work, torn, faults>>
      BY DEF Stranger
<1>2. Reach(job, p) /\ p \in Places
      BY NearReach DEF Base, Reach
<1>3. Real(p) = p /\ p \notin DOMAIN disk
      BY <1>1, <1>2, Known
<1>4. p # <<>>
      BY <1>3, TreeIs DEF Base
<1>5. FrontMade(p) /\ Bare(disk, p)
      BY <1>1, <1>2, <1>3, <1>4, FrontKnown, FileIsBare DEF FrontMade, Base
<1>6. node.kind \in {"dir", "file"}
  <2>1. Dir.kind = "dir" /\ StrayFile.kind = "file"
        BY DEF Dir, StrayFile
  <2>. QED BY <2>1
<1>7. IsTree(disk') /\ Clear(job, disk')
      BY <1>1, <1>2, <1>3, <1>4, <1>5, <1>6, TreeAfterPut
<1>8. Base' /\ Pend' = Pend
      BY <1>1, <1>7 DEF Base, Pend, work
<1>9. \A q \in DOMAIN disk : q \in DOMAIN disk' /\ disk'[q] = disk[q]
      BY <1>1, <1>3 DEF With
<1>10. BookOK'
      BY <1>1, <1>9 DEF BookOK, Entries, Entry, Undoing, FrontMade, work, Over
<1>11. Intrudes(p)
      BY <1>1, <1>2, <1>3 DEF Intrudes, BookOK, Over, work
<1>. QED BY <1>1, <1>2, <1>8, <1>10, <1>11 DEF Effect

LEMMA StepDoes ==
  ASSUME Base, BookOK, Tidy(job), CreatedOK, [UnpackNext]_unpackVars
  PROVE  Effect
<1>1. CASE Preflight \/ SecondPass \/ Finish \/ ReadFails \/ RolledBack \/ UNCHANGED unpackVars
      BY <1>1, IdleDo
<1>2. CASE Parents
      BY <1>2, ParentsDo
<1>3. CASE ExtractEntry
      BY <1>3, UnpackDirDo, UnpackFileDo, DeferLinkDo DEF ExtractEntry
<1>4. CASE \E i \in DOMAIN job.archive : HardLink(i)
      BY <1>4, HardLinkDo
<1>5. CASE MakeDirFails \/ WriteFails
      BY <1>5, MakeDirFailsDo, WriteFailsDo
<1>6. CASE \E r \in created : RollBack(r)
      BY <1>6, RollBackDo
<1>7. CASE \E p \in job.near, node \in {Dir, StrayFile} : Stranger(p, node)
      BY <1>7, StrangerDo
<1>. QED BY <1>1, <1>2, <1>3, <1>4, <1>5, <1>6, <1>7 DEF UnpackNext

-----------------------------------------------------------------------------
(* The invariant through each effect.                                      *)

LEMMA DirsAre ==
  ASSUME NEW d, NEW M
  PROVE  /\ DOMAIN WithDirs(d, M) = DOMAIN d \cup M
         /\ \A p \in M : WithDirs(d, M)[p] = Dir
         /\ \A p \in DOMAIN d \ M : WithDirs(d, M)[p] = d[p]
BY DEF WithDirs

LEMMA PutIs ==
  ASSUME NEW d, NEW q, NEW node
  PROVE  /\ DOMAIN With(d, q, node) = DOMAIN d \cup {q} /\ With(d, q, node)[q] = node
         /\ \A p \in DOMAIN d \ {q} : With(d, q, node)[p] = d[p]
BY DEF With

LEMMA CutIs ==
  ASSUME NEW d, NEW q
  PROVE  /\ DOMAIN Without(d, q) = DOMAIN d \ {q}
         /\ \A p \in DOMAIN d \ {q} : Without(d, q)[p] = d[p]
BY DEF Without

LEMMA Kinds == Dir.kind = "dir" /\ Torn.kind = "file" /\ StrayFile.kind = "file" /\ Absent.kind = "none"
BY DEF Dir, Torn, StrayFile, Absent

LEMMA LandsIs ==
  ASSUME Base, BookOK, CreatedOK, Tidy(job), NEW i, NEW q, Lands(i, q)
  PROVE  /\ i \in DOMAIN job.archive /\ q \in Places /\ q \in Puts(job) /\ q \notin Makes(job) /\ torn = {}
         /\ \A r \in created : r.path # q
         /\ \A k \in Pend : k # i => q \notin Spots(job, k)
         /\ q \notin Beside(job) => q \in Solid(job)
         /\ q \in Beside(job) => q \notin job.backup
<1>1. i \in DOMAIN job.archive /\ q \in Spots(job, i) /\ i \in Pend /\ torn = {}
      BY DEF Lands, Pend, BookOK, Working, Undoing
<1>2. q \in Places /\ q \in Puts(job)
      BY <1>1, SpotsIs DEF Lands, Base
<1>3. q \notin Makes(job) /\ (q \in Beside(job) => q \notin job.backup)
      BY <1>2, Apart DEF Base
<1>4. ASSUME NEW k \in Pend, k # i PROVE q \notin Spots(job, k)
  <2>1. k \in DOMAIN job.archive
        BY DEF Pend
  <2>2. Spots(job, i) \cap Spots(job, k) = {}
        BY <1>1, <1>4, <2>1, SpotsIs DEF Base
  <2>. QED BY <1>1, <2>2
<1>5. ASSUME NEW r \in created PROVE r.path # q
  <2>1. RecordOK(r)
        BY DEF CreatedOK
  <2>. QED BY <1>1, <1>3, <2>1 DEF RecordOK, Rec
<1>. QED BY <1>1, <1>2, <1>3, <1>4, <1>5 DEF Puts

LEMMA OneRecord ==
  ASSUME Base, CreatedOK, Tidy(job), NEW r \in created, NEW s \in created, r.path = s.path
  PROVE  r = s
<1>1. RecordOK(r) /\ RecordOK(s)
      BY DEF CreatedOK
<1>2. /\ r \in Rec /\ s \in Rec /\ (r.isDir <=> disk[r.path].kind = "dir") /\ (s.isDir <=> disk[s.path].kind = "dir")
      BY <1>1 DEF RecordOK, Rec
<1>3. r.isDir = s.isDir
      BY <1>2 DEF Rec
<1>4. r.displaced = s.displaced
  <2>1. Solid(job) \cap Beside(job) = {}
        BY Apart DEF Base
  <2>. QED BY <1>1, <1>2, <1>3, <2>1 DEF RecordOK, Rec
<1>. QED BY <1>2, <1>3, <1>4 DEF Rec

\* A record is still right if nothing happened at its path.
LEMMA RecordStays ==
  ASSUME NEW r, RecordOK(r), job' = job, Pend' \subseteq Pend,
         r.path \in DOMAIN disk', disk'[r.path] = disk[r.path],
         r.path \in strays' => r.path \in strays, strays \subseteq strays',
         r.isDir => (r.path \in torn' => r.path \in torn)
  PROVE  RecordOK(r)'
BY DEF RecordOK, Had

LEMMA MakesDirsRecord ==
  ASSUME UnpackInv, Tidy(job), job' = job, MakesDirs, Pend' \subseteq Pend
  PROVE  CreatedOK'
<1>1. PICK M \in SUBSET Makes(job) :
        /\ M \cap DOMAIN disk = {} /\ disk' = WithDirs(disk, M)
        /\ created' = created \cup {Record(q, TRUE, FALSE) : q \in M}
      BY DEF MakesDirs
<1>2. UNCHANGED <<strays, torn>> /\ torn = {}
      BY DEF MakesDirs, UnpackInv, BookOK, Working, Undoing
<1>3. ASSUME NEW r \in created PROVE RecordOK(r)'
  <2>1. RecordOK(r) /\ r.path \in DOMAIN disk
        BY DEF UnpackInv, CreatedOK, RecordOK
  <2>2. r.path \in DOMAIN disk' /\ disk'[r.path] = disk[r.path]
        BY <1>1, <2>1 DEF WithDirs
  <2>. QED BY <1>2, <2>1, <2>2, RecordStays
<1>4. ASSUME NEW q \in M PROVE RecordOK(Record(q, TRUE, FALSE))'
  <2>1. q \in Makes(job) /\ q \in Places /\ q \notin DOMAIN disk
        BY <1>1, MakesReach DEF UnpackInv, Base
  <2>2. q \in DOMAIN disk' /\ disk'[q].kind = "dir"
        BY <1>1, Kinds DEF WithDirs
  <2>3. q \notin Beside(job)
        BY <2>1, Apart DEF Puts, UnpackInv, Base
  <2>4. q \notin Had
        BY <1>2, <2>1, <2>3 DEF UnpackInv, KeptOK, Kept
  <2>. QED BY <1>2, <2>1, <2>2, <2>4 DEF RecordOK, Record, Rec, Had
<1>. QED BY <1>1, <1>3, <1>4 DEF CreatedOK

LEMMA PutsNodeRecord ==
  ASSUME UnpackInv, Tidy(job), job' = job, NEW i, NEW q, PutsNode(i, q), Pend' \subseteq Pend
  PROVE  CreatedOK'
<1>1. PICK node : node.kind \in {"file", "link"} /\ disk' = With(disk, q, node)
      BY DEF PutsNode
<1>0. PICK R : R = Record(q, FALSE, q \in DOMAIN disk /\ q \notin Beside(job))
      OBVIOUS
<1>2. /\ Lands(i, q) /\ i \notin Pend' /\ UNCHANGED <<strays, torn>>
      /\ created' \subseteq created \cup {R}
      /\ R \in created' \ created => ~ (q \in DOMAIN disk /\ disk[q].kind # "dir" /\ q \notin Beside(job))
  <2>1. created' = created \cup (IF q \in DOMAIN disk /\ disk[q].kind # "dir" /\ q \notin Beside(job) THEN {}
                                 ELSE {R})
        BY <1>0 DEF PutsNode
  <2>. QED BY <2>1 DEF PutsNode
<1>3. /\ i \in DOMAIN job.archive /\ q \in Places /\ q \in Puts(job) /\ q \notin Makes(job) /\ torn = {}
      /\ \A r \in created : r.path # q
      /\ \A k \in Pend : k # i => q \notin Spots(job, k)
      /\ q \notin Beside(job) => q \in Solid(job)
      BY <1>2, LandsIs DEF UnpackInv
<1>4. ASSUME NEW r \in created PROVE RecordOK(r)'
  <2>1. RecordOK(r) /\ r.path \in DOMAIN disk
        BY DEF UnpackInv, CreatedOK, RecordOK
  <2>2. r.path \in DOMAIN disk' /\ disk'[r.path] = disk[r.path]
        BY <1>1, <1>3, <2>1 DEF With
  <2>. QED BY <1>2, <2>1, <2>2, RecordStays
<1>5. ASSUME R \in created' \ created PROVE RecordOK(R)'
  <2>1. R.path = q /\ ~R.isDir /\ (R.displaced <=> q \in DOMAIN disk /\ q \notin Beside(job)) /\ R \in Rec
        BY <1>0, <1>3 DEF Record, Rec
  <2>2. q \in DOMAIN disk' /\ disk'[q].kind # "dir"
        BY <1>1 DEF With
  <2>3. \A k \in Pend' : q \notin Spots(job, k)
        BY <1>2, <1>3
  <2>4. ASSUME q \in DOMAIN disk, q \notin Beside(job) PROVE q \in Solid(job) /\ q \in Had /\ q \notin job.backup
    <3>1. disk[q].kind = "dir"
          BY <1>2, <1>5, <2>4
    <3>2. q \in Had
      <4>1. ~Undoing
            BY <1>2 DEF Lands, Working, Undoing
      <4>. QED BY <1>3, <2>4, <4>1 DEF UnpackInv, NewOK, Had
    <3>. QED BY <1>2, <1>3, <2>4, <3>2 DEF Lands
  <2>5. ASSUME q \notin DOMAIN disk, q \notin Beside(job) PROVE q \notin Had
        BY <1>3, <2>5 DEF UnpackInv, KeptOK, Kept
  <2>. QED BY <1>2, <1>3, <2>1, <2>2, <2>3, <2>4, <2>5 DEF RecordOK, Had
<1>. QED BY <1>2, <1>4, <1>5 DEF CreatedOK

LEMMA TouchRecord ==
  ASSUME UnpackInv, Tidy(job), job' = job, NEW i, NEW q, CutsNode(i, q) \/ Tears(i, q), Pend' \subseteq Pend
  PROVE  CreatedOK'
<1>1. Lands(i, q) /\ UNCHANGED <<created, strays>> /\ torn' \subseteq torn \cup {q}
      BY DEF CutsNode, Tears
<1>2. q \notin Makes(job) /\ \A r \in created : r.path # q
      BY <1>1, LandsIs DEF UnpackInv
<1>3. \A p \in DOMAIN disk \ {q} : p \in DOMAIN disk' /\ disk'[p] = disk[p]
      BY DEF CutsNode, Tears, With, Without
<1>4. ASSUME NEW r \in created PROVE RecordOK(r)'
  <2>1. RecordOK(r) /\ r.path \in DOMAIN disk
        BY DEF UnpackInv, CreatedOK, RecordOK
  <2>. QED BY <1>1, <1>2, <1>3, <2>1, RecordStays
<1>. QED BY <1>1, <1>4 DEF CreatedOK

LEMMA UndoesRecord ==
  ASSUME UnpackInv, Tidy(job), job' = job, NEW r \in created, Undoes(r), Pend' \subseteq Pend
  PROVE  CreatedOK'
<1>1. created' = created \ {r} /\ UNCHANGED <<strays, torn>>
      BY DEF Undoes
<1>2. \A p \in DOMAIN disk \ {r.path} : p \in DOMAIN disk' /\ disk'[p] = disk[p]
      BY DEF Undoes, With, Without
<1>3. ASSUME NEW s \in created \ {r} PROVE RecordOK(s)'
  <2>1. RecordOK(s) /\ s.path \in DOMAIN disk /\ s.path # r.path
        BY OneRecord DEF UnpackInv, CreatedOK, RecordOK
  <2>. QED BY <1>1, <1>2, <2>1, RecordStays
<1>. QED BY <1>1, <1>3 DEF CreatedOK

LEMMA OtherRecord ==
  ASSUME UnpackInv, Tidy(job), job' = job, Pend' \subseteq Pend,
         Leaves \/ TearsDirs \/ \E p \in Places : Intrudes(p)
  PROVE  CreatedOK'
<1>1. ASSUME NEW r \in created PROVE RecordOK(r)'
  <2>1. RecordOK(r) /\ r.path \in DOMAIN disk
        BY DEF UnpackInv, CreatedOK, RecordOK
  <2>2. CASE Leaves
        BY <2>1, <2>2, RecordStays DEF Leaves
  <2>3. CASE TearsDirs
    <3>1. PICK M : M \cap DOMAIN disk = {} /\ disk' = WithDirs(disk, M) /\ torn' = torn \cup M
          BY <2>3 DEF TearsDirs
    <3>2. r.path \in DOMAIN disk' /\ disk'[r.path] = disk[r.path] /\ (r.path \in torn' => r.path \in torn)
          BY <2>1, <3>1 DEF WithDirs
    <3>3. UNCHANGED strays
          BY <2>3 DEF TearsDirs
    <3>. QED BY <2>1, <3>2, <3>3, RecordStays
  <2>4. ASSUME NEW p \in Places, Intrudes(p) PROVE RecordOK(r)'
    <3>1. p # r.path /\ strays' = strays \cup {p} /\ torn' = torn
          BY <2>1, <2>4 DEF Intrudes
    <3>2. r.path \in DOMAIN disk' /\ disk'[r.path] = disk[r.path]
          BY <2>1, <2>4, <3>1 DEF Intrudes, With
    <3>. QED BY <2>1, <3>1, <3>2, RecordStays
  <2>. QED BY <2>2, <2>3, <2>4
<1>2. created' = created
      BY DEF Leaves, TearsDirs, Intrudes
<1>. QED BY <1>1, <1>2 DEF CreatedOK

LEMMA CreatedKeeps == ASSUME UnpackInv, Tidy(job), Effect PROVE CreatedOK'
BY MakesDirsRecord, PutsNodeRecord, TouchRecord, UndoesRecord, OtherRecord DEF Effect

\* What is new: a step adds what it remembers, what it tears, or a stray.
LEMMA NewStays ==
  ASSUME NewOK, job' = job, Undoing => Undoing', strays \subseteq strays', torn \subseteq torn',
         created \subseteq created', created' = created \/ ~Undoing', Undoing => DOMAIN disk \subseteq DOMAIN disk',
         \A p \in DOMAIN disk' \ DOMAIN disk :
           p \in strays' \/ (p \in torn' /\ Undoing') \/ \E r \in created' : r.path = p
  PROVE  NewOK'
<1>1. Excused \subseteq Excused'
      BY DEF Excused
<1>2. ASSUME NEW p \in DOMAIN disk' \ DOMAIN job.disk
      PROVE  \/ p \in strays' \/ \E r \in created' : r.path = p
             \/ Undoing' /\ p \in Excused'
             \/ Undoing' /\ (\A r \in created' : r.isDir) /\ \E x \in Excused' \cap DOMAIN disk' : Under(p, x)
  <2>1. CASE p \notin DOMAIN disk
        BY <2>1 DEF Excused
  <2>2. CASE p \in DOMAIN disk /\ ~Undoing
        BY <2>2 DEF NewOK
  <2>3. CASE p \in DOMAIN disk /\ Undoing
        BY <1>1, <2>3 DEF NewOK
  <2>. QED BY <2>1, <2>2, <2>3
<1>. QED BY <1>2 DEF NewOK

LEMMA NewMostly ==
  ASSUME UnpackInv, Tidy(job), job' = job,
         \/ Leaves \/ MakesDirs \/ TearsDirs \/ (\E p \in Places : Intrudes(p))
         \/ \E i, q : PutsNode(i, q) \/ CutsNode(i, q) \/ Tears(i, q)
  PROVE  NewOK'
<1>0. NewOK
      BY DEF UnpackInv
<1>1. CASE Leaves
      BY <1>0, <1>1, NewStays DEF Leaves
<1>2. CASE MakesDirs
  <2>1. PICK M : disk' = WithDirs(disk, M) /\ created' = created \cup {Record(q, TRUE, FALSE) : q \in M}
        BY <1>2 DEF MakesDirs
  <2>2. ASSUME NEW p \in DOMAIN disk' \ DOMAIN disk PROVE \E r \in created' : r.path = p
    <3>1. p \in M /\ Record(p, TRUE, FALSE) \in created' /\ Record(p, TRUE, FALSE).path = p
          BY <2>1, <2>2 DEF WithDirs, Record
    <3>. QED BY <3>1
  <2>3. created \subseteq created' /\ ~Undoing /\ ~Undoing' /\ UNCHANGED <<strays, torn>>
        BY <1>2, <2>1 DEF MakesDirs, Working, Undoing
  <2>. QED BY <1>0, <2>2, <2>3, NewStays
<1>3. CASE TearsDirs
  <2>1. PICK M : disk' = WithDirs(disk, M) /\ torn' = torn \cup M
        BY <1>3 DEF TearsDirs
  <2>2. ~Undoing /\ Undoing' /\ UNCHANGED <<created, strays>>
        BY <1>3 DEF TearsDirs, Working, Undoing
  <2>3. ASSUME NEW p \in DOMAIN disk' \ DOMAIN disk PROVE p \in torn'
        BY <2>1, <2>3 DEF WithDirs
  <2>. QED BY <1>0, <2>1, <2>2, <2>3, NewStays
<1>4. ASSUME NEW p \in Places, Intrudes(p) PROVE NewOK'
  <2>1. DOMAIN disk' = DOMAIN disk \cup {p} /\ strays' = strays \cup {p} /\ UNCHANGED <<created, torn, pc>>
        BY <1>4 DEF Intrudes, With
  <2>2. Undoing => Undoing'
        BY <2>1 DEF Undoing
  <2>. QED BY <1>0, <2>1, <2>2, NewStays
<1>5. ASSUME NEW i, NEW q, PutsNode(i, q) \/ CutsNode(i, q) PROVE NewOK'
  <2>1. ~Undoing /\ ~Undoing' /\ UNCHANGED <<strays, torn>> /\ created \subseteq created'
        BY <1>5 DEF PutsNode, CutsNode, Lands, Working, Undoing
  <2>2. ASSUME NEW p \in DOMAIN disk' \ DOMAIN disk PROVE \E r \in created' : r.path = p
    <3>1. PutsNode(i, q) /\ p = q /\ q \notin DOMAIN disk
          BY <1>5, <2>2 DEF PutsNode, CutsNode, With, Without
    <3>2. \E b : Record(q, FALSE, b) \in created'
          BY <3>1 DEF PutsNode
    <3>3. \A b : Record(q, FALSE, b).path = q
          BY DEF Record
    <3>. QED BY <3>1, <3>2, <3>3
  <2>. QED BY <1>0, <2>1, <2>2, NewStays
<1>6. ASSUME NEW i, NEW q, Tears(i, q) PROVE NewOK'
  <2>1. ~Undoing /\ Undoing' /\ UNCHANGED <<strays, created>> /\ torn' = torn \cup {q}
        BY <1>6 DEF Tears, Lands, Working, Undoing
  <2>2. ASSUME NEW p \in DOMAIN disk' \ DOMAIN disk PROVE p \in torn'
        BY <1>6, <2>1, <2>2 DEF Tears, With, Without
  <2>. QED BY <1>0, <2>1, <2>2, NewStays
<1>. QED BY <1>1, <1>2, <1>3, <1>4, <1>5, <1>6

LEMMA NewUndoes ==
  ASSUME UnpackInv, Tidy(job), job' = job, NEW r \in created, Undoes(r)
  PROVE  NewOK'
<1>. DEFINE d == r.path
<1>1. /\ Undoing /\ Undoing' /\ created' = created \ {r} /\ UNCHANGED <<strays, torn>>
      /\ \A s \in created : ~UndoBefore(s, r)
      BY DEF Undoes, Undoing
<1>2. RecordOK(r) /\ Excused' = Excused
      BY <1>1 DEF UnpackInv, CreatedOK, Excused
<1>3. d \in DOMAIN disk /\ d \in Places
      BY <1>2, TreeIs DEF RecordOK, UnpackInv, Base
<1>4. \A p \in DOMAIN disk \ DOMAIN job.disk :
         \/ p \in Excused \/ \E s \in created : s.path = p
         \/ (\A s \in created : s.isDir) /\ \E x \in Excused \cap DOMAIN disk : Under(p, x)
      BY <1>1 DEF UnpackInv, NewOK, Excused
<1>. DEFINE Fine(p) == \/ p \in Excused \/ \E s \in created' : s.path = p
                       \/ (\A s \in created' : s.isDir) /\ \E x \in Excused \cap DOMAIN disk' : Under(p, x)
<1>5. SUFFICES ASSUME NEW p \in DOMAIN disk' \ DOMAIN job.disk PROVE Fine(p)
      BY <1>1, <1>2 DEF NewOK
<1>. HIDE DEF d
<1>6. p \in DOMAIN disk
      BY <1>3 DEF Undoes, With, Without, d
<1>7. CASE d \in job.foreign /\ disk' = disk
      BY <1>1, <1>4, <1>6, <1>7 DEF Excused, d
<1>8. CASE r.isDir /\ ~Bare(disk, d) /\ disk' = disk
  <2>1. \A s \in created : s.isDir
        BY <1>1, <1>8 DEF UndoBefore
  <2>2. CASE p # d
        BY <1>1, <1>4, <1>6, <1>8, <2>2 DEF d
  <2>3. CASE p = d
    <3>1. PICK x \in DOMAIN disk : Under(d, x)
          BY <1>8 DEF Bare
    <3>2. x \in Places
          BY TreeIs DEF UnpackInv, Base
    <3>3. IsTree(job.disk) /\ d \notin DOMAIN job.disk
          BY <1>2, <1>8, ExtractAssumption DEF RecordOK, Had, d, ExtractAssumption, UnpackInv, Base
    <3>4. x \notin DOMAIN job.disk
          BY <1>3, <3>1, <3>3, TreeIs
    <3>5. ~ \E s \in created : s.path = x
      <4>1. SUFFICES ASSUME NEW s \in created, s.path = x PROVE FALSE
            OBVIOUS
      <4>2. Len(s.path) > Len(r.path)
            BY <1>3, <3>1, <3>2, <4>1, Lengths DEF Under, d
      <4>3. s.isDir /\ r.isDir /\ RecordOK(s)
            BY <1>8, <2>1 DEF UnpackInv, CreatedOK
      <4>4. s.isDir = r.isDir
            BY <1>2, <4>3 DEF RecordOK, Rec
      <4>. QED BY <1>1, <4>2, <4>4 DEF UndoBefore
    <3>6. x \in Excused \/ \E y \in Excused \cap DOMAIN disk : Under(x, y)
          BY <1>4, <3>4, <3>5
    <3>7. \E y \in Excused \cap DOMAIN disk : Under(d, y)
          BY <1>3, <3>1, <3>2, <3>6, Transitive, TreeIs DEF UnpackInv, Base
    <3>. QED BY <1>1, <1>8, <2>1, <2>3, <3>7
  <2>. QED BY <2>2, <2>3
<1>9. CASE /\ d \notin job.foreign /\ (r.isDir => Bare(disk, d))
           /\ disk' = IF r.displaced THEN With(disk, d, Dir) ELSE Without(disk, d)
  <2>1. CASE r.displaced
    <3>1. ~r.isDir /\ d \in Had
          BY <1>2, <2>1 DEF RecordOK, d
    <3>2. p # d \/ p \in Excused
          BY <3>1 DEF Had, Excused
    <3>3. DOMAIN disk' = DOMAIN disk
          BY <1>3, <1>9, <2>1 DEF With
    <3>. QED BY <1>1, <1>4, <1>6, <3>2, <3>3 DEF d
  <2>2. CASE ~r.displaced
    <3>1. p # d /\ DOMAIN disk' = DOMAIN disk \ {d}
          BY <1>9, <2>2 DEF Without
    <3>2. r.isDir => d \notin Excused
          BY <1>2, <1>9 DEF RecordOK, Had, Excused, d
    <3>3. (\A s \in created : s.isDir) => r.isDir
          OBVIOUS
    <3>. QED BY <1>1, <1>4, <1>6, <3>1, <3>2, <3>3 DEF d
  <2>. QED BY <2>1, <2>2
<1>10. \/ d \in job.foreign /\ disk' = disk
       \/ r.isDir /\ ~Bare(disk, d) /\ disk' = disk
       \/ /\ d \notin job.foreign /\ (r.isDir => Bare(disk, d))
          /\ disk' = IF r.displaced THEN With(disk, d, Dir) ELSE Without(disk, d)
      BY Zenon DEF Undoes, d
<1>. QED BY <1>7, <1>8, <1>9, <1>10

LEMMA NewKeeps == ASSUME UnpackInv, Tidy(job), Effect PROVE NewOK'
BY NewMostly, NewUndoes DEF Effect

-----------------------------------------------------------------------------
(* What was there, and the configuration.                                  *)

LEMMA KeptMostly ==
  ASSUME UnpackInv, Tidy(job), job' = job, created \subseteq created', UNCHANGED strays, torn \subseteq torn',
         NEW q, q \in torn' \/ q \in Beside(job) \/ (q \in DOMAIN disk' /\ q \notin DOMAIN disk) \/
                (q \in DOMAIN disk' /\ (disk[q].kind = "dir" => \E r \in created' : r.path = q /\ r.displaced)),
         \A p \in DOMAIN disk \ {q} : p \in DOMAIN disk' /\ disk'[p] = disk[p]
  PROVE  KeptOK'
<1>1. SUFFICES ASSUME NEW p \in Had \ torn', p \notin Beside(job) PROVE Kept(p)'
      BY DEF KeptOK, Had
<1>2. Kept(p)
      BY <1>1 DEF UnpackInv, KeptOK
<1>3. Before(p)' = Before(p)
      BY DEF Before
<1>4. CASE p # q
      BY <1>2, <1>3, <1>4 DEF Kept
<1>5. CASE p = q
      BY <1>1, <1>2, <1>3, <1>5 DEF Kept
<1>. QED BY <1>4, <1>5

LEMMA KeptKeeps == ASSUME UnpackInv, Tidy(job), Effect PROVE KeptOK'
<1>0. job' = job /\ KeptOK /\ CreatedOK
      BY DEF Effect, UnpackInv
<1>1. CASE Leaves
      BY <1>0, <1>1 DEF Leaves, KeptOK, Kept, Had, Before
<1>2. CASE MakesDirs \/ TearsDirs
  <2>1. PICK M : M \cap DOMAIN disk = {} /\ disk' = WithDirs(disk, M)
        BY <1>2 DEF MakesDirs, TearsDirs
  <2>2. created \subseteq created' /\ UNCHANGED strays /\ torn \subseteq torn'
        BY <1>2 DEF MakesDirs, TearsDirs
  <2>3. \A p \in DOMAIN disk : p \in DOMAIN disk' /\ disk'[p] = disk[p]
        BY <2>1 DEF WithDirs
  <2>4. SUFFICES ASSUME NEW p \in Had \ torn', p \notin Beside(job) PROVE Kept(p)'
        BY <1>0, <2>2 DEF KeptOK, Had
  <2>5. Kept(p) /\ Before(p)' = Before(p)
        BY <1>0, <2>2, <2>4 DEF KeptOK, Before
  <2>. QED BY <1>0, <2>2, <2>3, <2>5 DEF Kept
<1>3. ASSUME NEW i, NEW q, PutsNode(i, q) PROVE KeptOK'
  <2>1. PICK node : disk' = With(disk, q, node)
        BY <1>3 DEF PutsNode
  <2>2. /\ created \subseteq created' /\ UNCHANGED <<strays, torn>>
        BY <1>3 DEF PutsNode
  <2>3. q \in DOMAIN disk' /\ \A p \in DOMAIN disk \ {q} : p \in DOMAIN disk' /\ disk'[p] = disk[p]
        BY <2>1 DEF With
  <2>4. ASSUME q \notin Beside(job), q \in DOMAIN disk, disk[q].kind = "dir"
        PROVE  \E r \in created' : r.path = q /\ r.displaced
    <3>1. Record(q, FALSE, q \in DOMAIN disk /\ q \notin Beside(job)) \in created'
          BY <1>3, <2>4 DEF PutsNode
    <3>2. (q \in DOMAIN disk /\ q \notin Beside(job)) = TRUE
          BY <2>4
    <3>. QED BY <3>1, <3>2 DEF Record
  <2>. QED BY <1>0, <2>2, <2>3, <2>4, KeptMostly
<1>4. ASSUME NEW i, NEW q, CutsNode(i, q) \/ Tears(i, q) PROVE KeptOK'
  <2>1. \A p \in DOMAIN disk \ {q} : p \in DOMAIN disk' /\ disk'[p] = disk[p]
        BY <1>4 DEF CutsNode, Tears, With, Without
  <2>2. UNCHANGED <<created, strays>> /\ torn \subseteq torn' /\ (q \in torn' \/ q \in Beside(job))
        BY <1>4 DEF CutsNode, Tears
  <2>. QED BY <1>0, <2>1, <2>2, KeptMostly
<1>5. ASSUME NEW r \in created, Undoes(r) PROVE KeptOK'
  <2>1. created' = created \ {r} /\ UNCHANGED <<strays, torn>>
        BY <1>5 DEF Undoes
  <2>2. RecordOK(r)
        BY <1>0 DEF CreatedOK
  <2>3. SUFFICES ASSUME NEW p \in Had \ torn, p \notin Beside(job) PROVE Kept(p)'
        BY <1>0, <2>1 DEF KeptOK, Had
  <2>4. Kept(p) /\ Before(p)' = Before(p)
        BY <1>0, <2>3 DEF KeptOK, Before
  <2>5. CASE p # r.path
    <3>1. p \in DOMAIN disk' /\ disk'[p] = disk[p]
          BY <1>5, <2>4, <2>5 DEF Undoes, With, Without, Kept
    <3>. QED BY <1>0, <2>1, <2>4, <2>5, <3>1 DEF Kept
  <2>6. CASE p = r.path
    <3>1. p \in Had
          BY <2>3
    <3>2. r.displaced /\ ~r.isDir
          BY <2>2, <2>3, <2>6, <3>1 DEF RecordOK
    <3>3. (p \in job.foreign /\ disk' = disk) \/ disk' = With(disk, p, Dir)
          BY <1>5, <2>6, <3>2 DEF Undoes
    <3>4. CASE p \in job.foreign /\ disk' = disk
          BY <1>0, <2>4, <3>4 DEF Kept
    <3>5. CASE disk' = With(disk, p, Dir)
          BY <2>4, <3>5, Kinds DEF Kept, With
    <3>. QED BY <3>3, <3>4, <3>5
  <2>. QED BY <2>5, <2>6
<1>6. ASSUME NEW q \in Places, Intrudes(q) PROVE KeptOK'
  <2>1. /\ q \notin DOMAIN disk /\ strays' = strays \cup {q} /\ UNCHANGED <<created, torn>>
        /\ q \in DOMAIN disk' /\ \A p \in DOMAIN disk : p \in DOMAIN disk' /\ disk'[p] = disk[p]
        BY <1>6 DEF Intrudes, With
  <2>2. SUFFICES ASSUME NEW p \in (Had \cup {q}) \ torn, p \notin Beside(job) PROVE Kept(p)'
        BY <1>0, <2>1 DEF KeptOK, Had
  <2>3. Before(p)' = Before(p)
        BY <1>0 DEF Before
  <2>4. CASE p \in Had
    <3>1. Kept(p)
          BY <1>0, <2>2, <2>4 DEF KeptOK
    <3>. QED BY <1>0, <2>1, <2>3, <3>1 DEF Kept
  <2>5. CASE p \notin Had
    <3>1. p = q /\ Before(p).kind = "none"
          BY <2>2, <2>5, Kinds DEF Had, Before
    <3>. QED BY <1>0, <2>1, <2>3, <3>1 DEF Kept
  <2>. QED BY <2>4, <2>5
<1>. QED BY <1>1, <1>2, <1>3, <1>4, <1>5, <1>6 DEF Effect

\* Where something is changed, no configuration is: it is elsewhere, or free.
LEMMA ConfStays ==
  ASSUME UnpackInv, job' = job, UNCHANGED strays, NEW q, q \in job.backup => q \notin DOMAIN disk \/ q \notin Had,
         \A p \in DOMAIN disk \ {q} : p \in DOMAIN disk' /\ disk'[p] = disk[p]
  PROVE  ConfigurationWins'
<1>1. SUFFICES ASSUME NEW p \in job.backup
               PROVE  /\ Before(p).kind \in {"file", "link"} => Node(p)' = Before(p)
                      /\ p \in strays => Node(p)' \in {StrayFile, Dir}
      BY DEF ConfigurationWins, Before
<1>2. /\ Before(p).kind \in {"file", "link"} => Node(p) = Before(p)
      /\ p \in strays => Node(p) \in {StrayFile, Dir}
      BY <1>1 DEF UnpackInv, ConfigurationWins
<1>3. ASSUME Before(p).kind \in {"file", "link"} \/ p \in strays PROVE p \in DOMAIN disk /\ p \in Had
  <2>1. Node(p).kind # "none"
    <3>1. CASE Before(p).kind \in {"file", "link"}
          BY <1>2, <3>1
    <3>2. CASE p \in strays
      <4>1. Node(p) \in {StrayFile, Dir}
            BY <1>2, <3>2
      <4>2. CASE Node(p) = StrayFile
            BY <4>2, Kinds
      <4>3. CASE Node(p) = Dir
            BY <4>3, Kinds
      <4>. QED BY <4>1, <4>2, <4>3
    <3>. QED BY <1>3, <3>1, <3>2
  <2>2. p \in DOMAIN disk
        BY <2>1, NodeIs DEF UnpackInv
  <2>3. p \in Had
        BY <1>3, Kinds DEF Before, Had
  <2>. QED BY <2>2, <2>3
<1>4. CASE Before(p).kind \in {"file", "link"} \/ p \in strays
  <2>1. p # q /\ p \in DOMAIN disk
        BY <1>1, <1>3, <1>4
  <2>2. Node(p)' = Node(p)
        BY <2>1 DEF Node
  <2>. QED BY <1>2, <2>2
<1>. QED BY <1>4

LEMMA ConfKeeps == ASSUME UnpackInv, Tidy(job), Effect PROVE ConfigurationWins'
<1>0. job' = job /\ CreatedOK
      BY DEF Effect, UnpackInv
<1>1. <<>> \notin job.backup
      BY BackupIs DEF UnpackInv, Base
<1>2. CASE Leaves \/ MakesDirs \/ TearsDirs
  <2>1. UNCHANGED strays /\ \A p \in DOMAIN disk : p \in DOMAIN disk' /\ disk'[p] = disk[p]
        BY <1>2 DEF Leaves, MakesDirs, TearsDirs, WithDirs
  <2>. QED BY <1>0, <1>1, <2>1, ConfStays
<1>3. ASSUME NEW i, NEW q, PutsNode(i, q) \/ CutsNode(i, q) \/ Tears(i, q) PROVE ConfigurationWins'
  <2>1. UNCHANGED strays /\ (q \in job.backup => q \notin DOMAIN disk)
        BY <1>3 DEF PutsNode, CutsNode, Tears, Lands
  <2>2. \A p \in DOMAIN disk \ {q} : p \in DOMAIN disk' /\ disk'[p] = disk[p]
        BY <1>3 DEF PutsNode, CutsNode, Tears, With, Without
  <2>. QED BY <1>0, <2>1, <2>2, ConfStays
<1>4. ASSUME NEW r \in created, Undoes(r) PROVE ConfigurationWins'
  <2>1. RecordOK(r)
        BY <1>0 DEF CreatedOK
  <2>2. r.path \in job.backup => r.path \notin Had
    <3>1. job.backup \cap Beside(job) = {}
          BY Apart DEF UnpackInv, Base
    <3>. QED BY <2>1, <3>1 DEF RecordOK
  <2>3. UNCHANGED strays
        BY <1>4 DEF Undoes
  <2>4. \A p \in DOMAIN disk \ {r.path} : p \in DOMAIN disk' /\ disk'[p] = disk[p]
        BY <1>4 DEF Undoes, With, Without
  <2>. QED BY <1>0, <2>2, <2>3, <2>4, ConfStays
<1>5. ASSUME NEW q \in Places, Intrudes(q) PROVE ConfigurationWins'
  <2>1. /\ q \notin DOMAIN disk /\ strays' = strays \cup {q} /\ Node(q)' \in {StrayFile, Dir}
        /\ \A p \in DOMAIN disk : p \in DOMAIN disk' /\ disk'[p] = disk[p]
        BY <1>5 DEF Intrudes, With, Node
  <2>2. \A p \in job.backup : /\ Before(p).kind \in {"file", "link"} => Node(p) = Before(p)
                              /\ p \in strays => Node(p) \in {StrayFile, Dir}
        BY DEF UnpackInv, ConfigurationWins
  <2>3. ASSUME NEW p \in job.backup, Before(p).kind \in {"file", "link"} PROVE Node(p)' = Before(p)
    <3>1. Node(p) = Before(p) /\ Node(p).kind # "none"
          BY <2>2, <2>3
    <3>2. p \in DOMAIN disk
          BY <3>1, NodeIs DEF UnpackInv
    <3>. QED BY <2>1, <3>1, <3>2 DEF Node
  <2>4. ASSUME NEW p \in job.backup, p \in strays' PROVE Node(p)' \in {StrayFile, Dir}
    <3>1. CASE p = q
          BY <2>1, <3>1
    <3>2. CASE p # q
      <4>1. Node(p) \in {StrayFile, Dir}
            BY <2>1, <2>2, <2>4, <3>2
      <4>2. Node(p).kind # "none"
        <5>1. CASE Node(p) = StrayFile
              BY <5>1, Kinds
        <5>2. CASE Node(p) = Dir
              BY <5>2, Kinds
        <5>. QED BY <4>1, <5>1, <5>2
      <4>3. p \in DOMAIN disk
            BY <4>2, NodeIs DEF UnpackInv
      <4>. QED BY <2>1, <4>1, <4>3 DEF Node
    <3>. QED BY <3>1, <3>2
  <2>. QED BY <1>0, <2>3, <2>4 DEF ConfigurationWins, Before
<1>. QED BY <1>2, <1>3, <1>4, <1>5 DEF Effect

LEMMA InvStart == ASSUME UnpackInit, Tidy(job) PROVE UnpackInv
<1>1. job \in Scenarios /\ disk = job.disk /\ created = {} /\ strays = {} /\ torn = {} /\ pc = "check"
      BY DEF UnpackInit
<1>2. IsTree(disk)
      BY <1>1, ExtractAssumption DEF ExtractAssumption
<1>3. Base
      BY <1>1, <1>2 DEF Base, Clear, Tidy
<1>4. BookOK
      BY <1>1 DEF UnpackInit, BookOK, Undoing
<1>5. CreatedOK /\ NewOK
      BY <1>1 DEF CreatedOK, NewOK
<1>6. KeptOK
      BY <1>1 DEF KeptOK, Kept, Had, Before
<1>7. ConfigurationWins
      BY <1>1, Kinds DEF ConfigurationWins, Before, Node
<1>. QED BY <1>3, <1>4, <1>5, <1>6, <1>7 DEF UnpackInv

LEMMA InvNext == ASSUME UnpackInv, Tidy(job), [UnpackNext]_unpackVars PROVE UnpackInv' /\ job' = job
<1>1. Effect
      BY StepDoes DEF UnpackInv
<1>. QED BY <1>1, CreatedKeeps, NewKeeps, KeptKeeps, ConfKeeps DEF UnpackInv, Effect

LEMMA InvTakesBack == UnpackInv => TakenBack
<1>1. SUFFICES ASSUME UnpackInv, pc = "failed" PROVE TakenBack
      BY DEF TakenBack
<1>2. created = {} /\ Undoing
      BY <1>1 DEF UnpackInv, BookOK, Undoing
<1>3. ASSUME NEW p \in DOMAIN disk \ DOMAIN job.disk
      PROVE  p \in Excused \/ Inside(p, Excused \cap DOMAIN disk) # {}
  <2>1. p \in Excused \/ \E x \in Excused \cap DOMAIN disk : Under(p, x)
        BY <1>1, <1>2 DEF UnpackInv, NewOK, Excused
  <2>2. ASSUME NEW x \in Excused \cap DOMAIN disk, Under(p, x) PROVE x \in Inside(p, Excused \cap DOMAIN disk)
    <3>1. p \in Places /\ x \in Places
          BY <1>1, TreeIs DEF UnpackInv, Base
    <3>2. \A q \in Places : Under(q, p) /\ q \in DOMAIN disk => disk[q].kind # "link"
          BY <1>1, TreeIs DEF UnpackInv, Base
    <3>3. Real(p) = p
          BY <3>1, <3>2, RealIs
    <3>. QED BY <2>2, <3>1, <3>3, Below DEF Inside
  <2>. QED BY <2>1, <2>2
<1>4. ASSUME NEW p \in (DOMAIN job.disk \cup strays) \ torn, p \notin Beside(job)
      PROVE  p \in DOMAIN disk /\ (Before(p).kind = "dir" => disk[p].kind = "dir" \/ p \in job.foreign)
      BY <1>1, <1>2, <1>4 DEF UnpackInv, KeptOK, Kept, Had
<1>. QED BY <1>3, <1>4 DEF TakenBack, Excused

-----------------------------------------------------------------------------
(* What the pre-flight let pass stays so while the run is on its own.      *)

WaysFree ==
  \A e \in Entries : \A a \in Ancestors(e.path) \cap DOMAIN disk : disk[a].kind = "dir"
FoldersFree ==
  \A p \in Folders(job) \cap DOMAIN disk :
    \/ disk[p].kind = "dir"
    \/ /\ disk[p].kind = "link" /\ disk[p].to \notin Solid(job)
       /\ disk[p].to \in DOMAIN disk /\ disk[disk[p].to].kind = "dir"
BesideFree == \A p \in Beside(job) \cap DOMAIN disk : disk[p].kind # "dir"
SolidFree ==
  \A p \in Solid(job) \cap DOMAIN disk :
    disk[p].kind = "dir" => Before(p).kind = "dir" /\ (p \in job.mine \/ Bare(disk, p))
FilesThere ==
  \A i \in DOMAIN job.archive :
    i < next /\ job.archive[i].kind = "file"
      => job.archive[i].path \in DOMAIN disk /\ disk[job.archive[i].path].kind # "dir"
FrontsThere == \A i \in links : FrontMade(job.archive[i].path)
Culprit ==
  \E e \in Entries : /\ e.kind # "dir" /\ Before(e.path).kind = "dir"
                     /\ \/ e.path \in job.mine
                        \/ e.path \in DOMAIN disk /\ disk[e.path].kind = "dir" /\ Bare(disk, e.path)

ForeOK ==
  /\ faults \in Nat /\ (pc = "check" => next = 1 /\ links = {})
  /\ OwnWay /\ Working =>
       WaysFree /\ FoldersFree /\ BesideFree /\ SolidFree /\ FilesThere /\ FrontsThere
  /\ OwnWay /\ Undoing => Culprit

LEMMA NothingUnderPuts ==
  ASSUME Base, BookOK, Tidy(job), Working, NEW p \in Solid(job), NEW q \in Makes(job) \cup Puts(job)
  PROVE  ~ Under(p, q)
<1>1. p # <<>> /\ p \in Places
      BY MakesReach DEF BookOK, Working, Solid, Entries, Base, Puts
<1>2. p \notin Ways(job)
      BY Apart DEF Base, Makes, Puts
<1>. QED BY <1>1, <1>2, MakesReach DEF Reach, Base

LEMMA ForeTree ==
  ASSUME UnpackInv, Tidy(job), job' = job, Working, WaysFree, FoldersFree, BesideFree, SolidFree,
         Leaves \/ MakesDirs \/ \E i, q : PutsNode(i, q) \/ CutsNode(i, q)
  PROVE  WaysFree' /\ FoldersFree' /\ BesideFree' /\ SolidFree'
<1>0. /\ Entries' = Entries /\ \A p : Before(p)' = Before(p)
      /\ \A e \in Entries : Ancestors(e.path) \subseteq Ways(job)
      /\ Makes(job) \cap Puts(job) = {} /\ Base /\ BookOK /\ CreatedOK
      BY Apart DEF Entries, Before, Ways, UnpackInv, Base
<1>1. CASE Leaves
      BY <1>0, <1>1 DEF Leaves, WaysFree, FoldersFree, BesideFree, SolidFree
<1>2. CASE MakesDirs
  <2>1. PICK M \in SUBSET Makes(job) : M \cap DOMAIN disk = {} /\ disk' = WithDirs(disk, M)
        BY <1>2 DEF MakesDirs
  <2>2. /\ DOMAIN disk' = DOMAIN disk \cup M /\ \A p \in DOMAIN disk : disk'[p] = disk[p]
        /\ \A p \in M : disk'[p].kind = "dir"
        BY <2>1, Kinds DEF WithDirs
  <2>3. WaysFree'
        BY <1>0, <2>2 DEF WaysFree
  <2>4. FoldersFree'
        BY <2>2 DEF FoldersFree
  <2>5. M \cap Puts(job) = {}
        BY <1>0, <2>1
  <2>6. BesideFree'
        BY <2>2, <2>5 DEF BesideFree, Puts
  <2>7. SolidFree'
    <3>1. SUFFICES ASSUME NEW p \in Solid(job) \cap DOMAIN disk', disk'[p].kind = "dir"
                   PROVE  Before(p).kind = "dir" /\ (p \in job.mine \/ Bare(disk', p))
          BY <1>0 DEF SolidFree
    <3>2. p \in DOMAIN disk /\ disk[p].kind = "dir"
          BY <2>2, <2>5, <3>1 DEF Puts
    <3>3. ASSUME Bare(disk, p) PROVE Bare(disk', p)
      <4>1. \A q \in M : ~ Under(p, q)
            BY <1>0, <2>1, NothingUnderPuts
      <4>. QED BY <2>2, <3>3, <4>1 DEF Bare
    <3>. QED BY <3>2, <3>3 DEF SolidFree
  <2>. QED BY <2>3, <2>4, <2>6, <2>7
<1>3. ASSUME NEW i, NEW q, PutsNode(i, q) \/ CutsNode(i, q)
      PROVE  WaysFree' /\ FoldersFree' /\ BesideFree' /\ SolidFree'
  <2>1. q \notin Makes(job) /\ q \in Puts(job)
        BY <1>0, <1>3, LandsIs DEF PutsNode, CutsNode
  <2>2. /\ \A p \in DOMAIN disk' : p # q => p \in DOMAIN disk /\ disk'[p] = disk[p]
        /\ \A p \in DOMAIN disk : p # q => p \in DOMAIN disk'
        /\ q \in DOMAIN disk' => disk'[q].kind # "dir"
        /\ q \in Beside(job) \/ q \in Solid(job)
    <3>1. CASE PutsNode(i, q)
      <4>1. PICK node : node.kind \in {"file", "link"} /\ disk' = With(disk, q, node)
            BY <3>1 DEF PutsNode
      <4>. QED BY <2>1, <4>1 DEF With, Puts
    <3>2. CASE CutsNode(i, q)
          BY <3>2 DEF CutsNode, Without
    <3>. QED BY <1>3, <3>1, <3>2
  <2>3. WaysFree'
    <3>1. SUFFICES ASSUME NEW e \in Entries, NEW a \in Ancestors(e.path) \cap DOMAIN disk' PROVE disk'[a].kind = "dir"
          BY <1>0 DEF WaysFree, Ancestors, Steps, Front
    <3>2. a # q
          BY <1>0, <2>1, <3>1 DEF Makes
    <3>. QED BY <2>2, <3>1, <3>2 DEF WaysFree
  <2>4. FoldersFree'
    <3>1. SUFFICES ASSUME NEW p \in Folders(job) \cap DOMAIN disk'
                   PROVE  \/ disk'[p].kind = "dir"
                          \/ /\ disk'[p].kind = "link" /\ disk'[p].to \notin Solid(job)
                             /\ disk'[p].to \in DOMAIN disk' /\ disk'[disk'[p].to].kind = "dir"
          BY DEF FoldersFree
    <3>2. p # q /\ p \in DOMAIN disk /\ disk'[p] = disk[p]
          BY <2>1, <2>2, <3>1 DEF Makes
    <3>3. CASE disk[p].kind = "dir"
          BY <3>2, <3>3
    <3>4. CASE disk[p].kind # "dir"
      <4>1. /\ disk[p].kind = "link" /\ disk[p].to \notin Solid(job)
            /\ disk[p].to \in DOMAIN disk /\ disk[disk[p].to].kind = "dir"
            BY <3>1, <3>2, <3>4 DEF FoldersFree
      <4>2. disk[p].to # q
            BY <2>2, <4>1 DEF BesideFree
      <4>. QED BY <2>2, <3>2, <4>1, <4>2
    <3>. QED BY <3>3, <3>4
  <2>5. BesideFree'
        BY <2>2 DEF BesideFree
  <2>6. SolidFree'
    <3>1. SUFFICES ASSUME NEW p \in Solid(job) \cap DOMAIN disk', disk'[p].kind = "dir"
                   PROVE  Before(p).kind = "dir" /\ (p \in job.mine \/ Bare(disk', p))
          BY <1>0 DEF SolidFree
    <3>2. p # q /\ p \in DOMAIN disk /\ disk[p].kind = "dir"
          BY <2>2, <3>1
    <3>3. ASSUME Bare(disk, p) PROVE Bare(disk', p)
      <4>1. ~ Under(p, q)
            BY <1>0, <2>1, NothingUnderPuts
      <4>. QED BY <2>2, <3>3, <4>1 DEF Bare
    <3>. QED BY <3>2, <3>3 DEF SolidFree
  <2>. QED BY <2>3, <2>4, <2>5, <2>6
<1>. QED BY <1>1, <1>2, <1>3

LEMMA ForeFronts ==
  ASSUME UnpackInv, Tidy(job), job' = job, Working,
         Leaves \/ MakesDirs \/ \E i, q : PutsNode(i, q) \/ CutsNode(i, q),
         NEW p, Reach(job, p), p # <<>>, FrontMade(p)
  PROVE  FrontMade(p)'
<1>0. Front(p) = <<>> \/ Front(p) \in Ways(job)
      BY FrontReach DEF UnpackInv, Base
<1>1. CASE Leaves
      BY <1>1 DEF Leaves, FrontMade
<1>2. CASE MakesDirs
      BY <1>2, Kinds DEF MakesDirs, FrontMade, WithDirs
<1>3. ASSUME NEW i, NEW q, PutsNode(i, q) \/ CutsNode(i, q) PROVE FrontMade(p)'
  <2>1. q \notin Makes(job) /\ q \in Spots(job, i) /\ i \in DOMAIN job.archive
        BY <1>3, LandsIs DEF PutsNode, CutsNode, UnpackInv, Lands
  <2>2. q # <<>>
    <3>1. pc \notin {"check", "refused"}
          BY DEF Working
    <3>2. job.archive[i].path # <<>>
          BY <2>1, <3>1, PathIs DEF UnpackInv
    <3>. QED BY <2>1, <3>2, BackupReach DEF Spots, UnpackInv, Base
  <2>3. Front(p) # q
        BY <1>0, <2>1, <2>2 DEF Makes
  <2>. QED BY <1>3, <2>3 DEF PutsNode, CutsNode, With, Without, FrontMade
<1>. QED BY <1>1, <1>2, <1>3

\* What one entry leaves: a file, or the one that was kept.
LEMMA FileLeft ==
  ASSUME UnpackInv, Tidy(job), pc = "entries", next <= Len(job.archive), made, UnpackFile, pc' = pc,
         Entry.kind = "file"
  PROVE  Entry.path \in DOMAIN disk' /\ disk'[Entry.path].kind # "dir"
<1>. DEFINE p == Entry.path
            q == Landing(p)
<1>0. next \in DOMAIN job.archive /\ Entry = job.archive[next] /\ Reach(job, p)
      BY NextIs, PathIs DEF UnpackInv
<1>1. ~Blocked(Entry) /\ Place(p, Shipped(Entry))
  <2>1. ~InPlace(Entry)
        BY DEF InPlace
  <2>2. ~Fails
        BY DEF Fails
  <2>. QED BY <2>1, <2>2 DEF UnpackFile, InPlace
<1>2. /\ p \in job.backup /\ p \in DOMAIN disk => Spared(p) /\ q = PacnewPath(p) /\ q \in Beside(job)
      /\ p \notin job.backup \/ p \notin DOMAIN disk => ~Spared(p) /\ q = p /\ q \notin Beside(job)
      /\ Reach(job, q)
      BY <1>0, LandingIs DEF UnpackInv
<1>3. p \in Solid(job)
      BY <1>0, IndexIs DEF Solid, UnpackInv, Base
<1>. HIDE DEF p, q
<1>4. CASE Spared(p)
  <2>1. WriteBeside(p, Shipped(Entry)) /\ p \in DOMAIN disk /\ q = PacnewPath(p) /\ q \in Beside(job)
        BY <1>1, <1>2, <1>4 DEF Place
  <2>2. p # q /\ Real(q) = q
        BY <1>2, <1>3, <2>1, Apart, Known DEF UnpackInv, Base
  <2>3. Lstat(p).kind # "dir" /\ Lstat(p) = Node(p)
        BY <1>0, <1>1, Known DEF Blocked, UnpackInv, p
  <2>4. disk[p].kind # "dir"
        BY <2>1, <2>3 DEF Node
  <2>. QED BY <2>1, <2>2, <2>4 DEF WriteBeside, With, Without, p
<1>5. CASE ~Spared(p)
  <2>1. Write(p, Shipped(Entry)) /\ Real(p) = p
        BY <1>0, <1>1, <1>5, Known DEF Place, UnpackInv
  <2>2. Shipped(Entry).kind = "file"
        BY DEF Shipped
  <2>. QED BY <2>1, <2>2 DEF Write, With, p
<1>. QED BY <1>4, <1>5

LEMMA NextMoves ==
  ASSUME [UnpackNext]_unpackVars
  PROVE  /\ job' = job /\ strays \subseteq strays' /\ faults' \in {faults, faults + 1}
         /\ \/ UNCHANGED <<next, links>>
            \/ next' = next /\ \E i \in links : links' = links \ {i}
            \/ /\ pc = "entries" /\ next <= Len(job.archive) /\ made /\ next' = next + 1 /\ pc' = pc
               /\ \/ (UnpackDir \/ UnpackFile) /\ links' = links
                  \/ DeferLink /\ links' = links \cup {next}
<1>1. CASE ExtractEntry
      BY <1>1 DEF ExtractEntry, UnpackDir, UnpackFile, DeferLink, Fails, work, Done, Skip, Quiet
<1>2. CASE \E i \in DOMAIN job.archive : HardLink(i)
      BY <1>2 DEF HardLink, Turn, Fails, work, Linked
<1>3. CASE Preflight \/ Parents \/ SecondPass \/ Finish \/ ReadFails \/ MakeDirFails \/ WriteFails \/ RolledBack
      BY <1>3 DEF Preflight, Parents, SecondPass, Finish, ReadFails, MakeDirFails, WriteFails, RolledBack,
                  Fails, Fault, work, Quiet
<1>4. CASE \E r \in created : RollBack(r)
      BY <1>4 DEF RollBack, Quiet
<1>5. CASE \E p \in job.near, node \in {Dir, StrayFile} : Stranger(p, node)
      BY <1>5 DEF Stranger, work
<1>6. CASE UNCHANGED unpackVars
      BY <1>6 DEF unpackVars, work
<1>. QED BY <1>1, <1>2, <1>3, <1>4, <1>5, <1>6 DEF UnpackNext

LEMMA EffectHere ==
  ASSUME Effect, Working, Working', strays' = {}
  PROVE  Leaves \/ MakesDirs \/ \E i, q : PutsNode(i, q) \/ CutsNode(i, q)
<1>1. ~TearsDirs /\ \A i, q : ~Tears(i, q)
      BY DEF TearsDirs, Tears, Working
<1>2. \A r : ~Undoes(r)
      BY DEF Undoes, Working
<1>3. \A p : ~Intrudes(p)
      BY DEF Intrudes
<1>. QED BY <1>1, <1>2, <1>3 DEF Effect

LEMMA ForeFiles ==
  ASSUME UnpackInv, Tidy(job), [UnpackNext]_unpackVars, Working, FilesThere, FrontsThere,
         Leaves \/ MakesDirs \/ \E i, q : PutsNode(i, q) \/ CutsNode(i, q)
  PROVE  FilesThere' /\ FrontsThere'
<1>0. /\ job' = job /\ pc \notin {"check", "refused"} /\ Base /\ BookOK
      /\ \A i \in DOMAIN job.archive : job.archive[i].path # <<>> /\ Reach(job, job.archive[i].path)
      BY NextMoves, PathIs DEF UnpackInv, Working
<1>1. FilesThere'
  <2>1. SUFFICES ASSUME NEW i \in DOMAIN job.archive, i < next', job.archive[i].kind = "file"
                 PROVE  job.archive[i].path \in DOMAIN disk' /\ disk'[job.archive[i].path].kind # "dir"
        BY <1>0 DEF FilesThere
  <2>. DEFINE p == job.archive[i].path
  <2>2. CASE i < next
    <3>1. p \in DOMAIN disk /\ disk[p].kind # "dir"
          BY <2>1, <2>2 DEF FilesThere
    <3>2. p \in Solid(job)
          BY <2>1, IndexIs DEF Solid, UnpackInv, Base
    <3>. HIDE DEF p
    <3>3. CASE Leaves
          BY <3>1, <3>3 DEF Leaves, p
    <3>4. CASE MakesDirs
      <4>1. PICK M : M \cap DOMAIN disk = {} /\ disk' = WithDirs(disk, M)
            BY <3>4 DEF MakesDirs
      <4>2. p \in DOMAIN disk' /\ disk'[p] = disk[p]
            BY <3>1, <4>1 DEF WithDirs
      <4>. QED BY <3>1, <4>2 DEF p
    <3>5. ASSUME NEW k, NEW q, PutsNode(k, q) PROVE p \in DOMAIN disk' /\ disk'[p].kind # "dir"
      <4>1. PICK node : node.kind \in {"file", "link"} /\ disk' = With(disk, q, node)
            BY <3>5 DEF PutsNode
      <4>. QED BY <3>1, <4>1 DEF With
    <3>6. ASSUME NEW k, NEW q, CutsNode(k, q) PROVE p \in DOMAIN disk' /\ disk'[p].kind # "dir"
      <4>1. p # q
            BY <3>2, <3>6, Apart DEF CutsNode, UnpackInv, Base
      <4>. QED BY <3>1, <3>6, <4>1 DEF CutsNode, Without
    <3>. QED BY <3>3, <3>4, <3>5, <3>6 DEF p
  <2>3. CASE ~ (i < next)
    <3>1. /\ pc = "entries" /\ next <= Len(job.archive) /\ made /\ next' = next + 1 /\ pc' = pc
          /\ UnpackDir \/ UnpackFile \/ DeferLink
          BY <2>1, <2>3, NextMoves
    <3>2. i \in Nat /\ next \in Nat
          BY <2>1, IndexIs DEF UnpackInv, Base, BookOK
    <3>3. i = next /\ Entry = job.archive[i]
          BY <2>1, <2>3, <3>1, <3>2 DEF Entry
    <3>4. UnpackFile /\ Entry.kind = "file"
          BY <2>1, <3>1, <3>3 DEF UnpackDir, DeferLink
    <3>. QED BY <3>1, <3>3, <3>4, FileLeft
  <2>. QED BY <2>2, <2>3
<1>2. FrontsThere'
  <2>1. SUFFICES ASSUME NEW i \in links' PROVE FrontMade(job.archive[i].path)'
        BY <1>0 DEF FrontsThere, FrontMade
  <2>2. i \in DOMAIN job.archive /\ FrontMade(job.archive[i].path)
    <3>1. CASE i \in links
          BY <3>1 DEF FrontsThere, UnpackInv, BookOK
    <3>2. CASE i \notin links
      <4>1. i = next /\ pc = "entries" /\ made /\ next <= Len(job.archive)
            BY <2>1, <3>2, NextMoves
      <4>. QED BY <4>1, NextIs DEF UnpackInv, BookOK
    <3>. QED BY <3>1, <3>2
  <2>3. PICK p : p = job.archive[i].path
        OBVIOUS
  <2>4. FrontMade(p)'
        BY <1>0, <2>2, <2>3, ForeFronts
  <2>. QED BY <1>0, <2>3, <2>4 DEF FrontMade
<1>. QED BY <1>1, <1>2

LEMMA CulpritIs ==
  ASSUME UnpackInv, Tidy(job), Working, BesideFree, SolidFree,
         NEW i \in DOMAIN job.archive, job.archive[i].kind # "dir",
         "dir" \in {Lstat(job.archive[i].path).kind, Lstat(Landing(job.archive[i].path)).kind}
  PROVE  Culprit
<1>. DEFINE p == job.archive[i].path
            q == Landing(p)
<1>0. pc \notin {"check", "refused"} /\ Base
      BY DEF Working, UnpackInv
<1>1. job.archive[i] \in Entries /\ p \in Solid(job) /\ Reach(job, p)
      BY <1>0, PathIs DEF Entries, Solid, UnpackInv
<1>2. /\ Reach(job, q) /\ (q = p \/ q \in Beside(job))
      BY <1>0, LandingIs DEF UnpackInv
<1>. HIDE DEF p, q
<1>3. Lstat(p) = Node(p) /\ Lstat(q) = Node(q)
      BY <1>0, <1>1, <1>2, Known
<1>4. p \in DOMAIN disk /\ disk[p].kind = "dir"
  <2>1. CASE Node(p).kind = "dir"
        BY <1>0, <2>1, NodeIs
  <2>2. CASE Node(q).kind = "dir"
    <3>1. q \in DOMAIN disk /\ disk[q].kind = "dir"
          BY <1>0, <2>2, NodeIs
    <3>. QED BY <1>2, <3>1 DEF BesideFree
  <2>. QED BY <1>3, <2>1, <2>2 DEF p, q
<1>5. Before(p).kind = "dir" /\ (p \in job.mine \/ Bare(disk, p))
      BY <1>1, <1>4 DEF SolidFree
<1>. QED BY <1>1, <1>4, <1>5 DEF Culprit, p

LEMMA ParentsPass ==
  ASSUME UnpackInv, Tidy(job), Working, WaysFree, next <= Len(job.archive)
  PROVE  CanMake(Front(Entry.path))
<1>1. Entry \in Entries /\ Base /\ Ancestors(Entry.path) \subseteq Ways(job)
      BY NextIs, PathIs DEF UnpackInv, Working, Entries, Ways
<1>2. SUFFICES ASSUME NEW q \in Ancestors(Entry.path), Taken(q) PROVE Stat(q).kind = "dir"
      BY DEF CanMake, Ancestors
<1>3. q \in DOMAIN disk
      BY <1>1, <1>2, WayKnown, Known
<1>. QED BY <1>1, <1>2, <1>3, WayKnown DEF WaysFree

LEMMA UnpackDirPasses ==
  ASSUME UnpackInv, Tidy(job), Working, WaysFree, FoldersFree, next <= Len(job.archive), Entry.kind = "dir"
  PROVE  CanMake(Entry.path)
<1>. DEFINE p == Entry.path
<1>1. Entry \in Entries /\ Base /\ Reach(job, p) /\ p \in Places /\ Entry \in ToSet(job.archive)
      BY NextIs, PathIs DEF UnpackInv, Working, Entries
<1>2. p \in Folders(job)
      BY <1>1 DEF Folders
<1>3. SUFFICES ASSUME NEW q \in Steps(p), Taken(q) PROVE Stat(q).kind = "dir"
      BY DEF CanMake
<1>. HIDE DEF p
<1>4. CASE q = p
  <2>1. p \in DOMAIN disk /\ Stat(p) = Node(Follow(p)) /\ Node(p) = disk[p]
        BY <1>1, <1>3, <1>4, Known, NodeIs
  <2>2. CASE disk[p].kind = "dir"
        BY <1>1, <1>4, <2>1, <2>2, NodeIs
  <2>3. CASE disk[p].kind # "dir"
    <3>1. disk[p].kind = "link" /\ disk[p].to \in DOMAIN disk /\ disk[disk[p].to].kind = "dir"
          BY <1>2, <2>1, <2>3 DEF FoldersFree
    <3>2. Follow(p) = disk[p].to
          BY <2>1, <3>1 DEF Follow
    <3>. QED BY <1>4, <2>1, <3>1, <3>2 DEF Node
  <2>. QED BY <2>2, <2>3
<1>5. CASE q # p
  <2>1. q \in Ancestors(p)
        BY <1>1, <1>3, <1>5, StepsOf, AncestorsOf
  <2>2. q \in Ways(job)
        BY <1>1, <2>1 DEF Ways, p
  <2>3. q \in DOMAIN disk
        BY <1>1, <1>3, <2>2, WayKnown, Known
  <2>. QED BY <1>1, <2>1, <2>2, <2>3, WayKnown DEF WaysFree, p
<1>. QED BY <1>4, <1>5

LEMMA HardPasses ==
  ASSUME UnpackInv, Tidy(job), Steady(job), FilesThere, FrontsThere, NEW i \in DOMAIN job.archive, Turn(i)
  PROVE  /\ Stat(Front(Landing(job.archive[i].path))).kind = "dir"
         /\ LinkSource(job.archive[i]).kind \notin {"none", "dir"}
         /\ Real(job.archive[i].to) # Real(Landing(job.archive[i].path))
<1>. DEFINE e == job.archive[i]
            q == Landing(e.path)
<1>0. Base /\ BookOK /\ pc = "links" /\ i \in links /\ e.kind = "hard" /\ e \in ToSet(job.archive) /\ next > Len(job.archive)
      BY TurnIs DEF UnpackInv
<1>1. /\ q # <<>> /\ Reach(job, q) /\ Front(q) = Front(e.path)
      BY <1>0, LandingIs
<1>2. FrontMade(e.path)
      BY <1>0 DEF FrontsThere
<1>3. Reach(job, e.to) /\ e.to \in Sources(job)
      BY <1>0, EntryReach DEF Base, Sources
<1>a. q \in Beside(job) \/ q = e.path
      BY <1>0, LandingIs
<1>. HIDE DEF q
<1>b. e = job.archive[i]
      OBVIOUS
<1>. HIDE DEF e
<1>4. Stat(Front(q)).kind = "dir"
      BY <1>0, <1>1, <1>2, FrontKnown DEF FrontMade
<1>5. PICK f \in ToSet(job.archive) : f.kind = "file" /\ f.path = e.to
      BY <1>3 DEF Steady
<1>6. PICK k \in DOMAIN job.archive : f = job.archive[k]
      BY <1>0, IndexIs DEF Base
<1>7. k < next
      BY <1>0, <1>6, IndexIs DEF Base, BookOK
<1>8. e.to \in DOMAIN disk /\ disk[e.to].kind # "dir"
      BY <1>5, <1>6, <1>7 DEF FilesThere
<1>9. LinkSource(e) = Node(e.to)
      BY <1>0, <1>3, Known DEF LinkSource
<1>10. LinkSource(e).kind \notin {"none", "dir"}
      BY <1>0, <1>8, <1>9, NodeIs
<1>11. e.to # q
  <2>1. e.to \in Solid(job)
        BY <1>5 DEF Solid
  <2>2. e.to \notin Beside(job)
        BY <1>0, <2>1, Apart DEF Base
  <2>3. e.to # e.path
        BY <1>0, <1>5, <1>6, <1>b DEF Tidy
  <2>. QED BY <1>a, <2>2, <2>3
<1>12. Real(e.to) # Real(q)
       BY <1>0, <1>1, <1>3, <1>11, Known
<1>. QED BY <1>4, <1>10, <1>12 DEF q, e

LEMMA ForeFails ==
  ASSUME UnpackInv, Tidy(job), Steady(job), [UnpackNext]_unpackVars, Working, pc' = "undo",
         faults \in Nat, faults' = 0,
         WaysFree, FoldersFree, BesideFree, SolidFree, FilesThere, FrontsThere
  PROVE  Culprit'
<1>0. /\ ~ReadFails /\ ~MakeDirFails /\ ~WriteFails
  <2>1. ~Fault
        BY DEF Fault
  <2>. QED BY <2>1 DEF ReadFails, MakeDirFails, WriteFails
<1>1. ~Preflight /\ ~SecondPass /\ ~Finish /\ ~RolledBack /\ ~UNCHANGED unpackVars
      BY DEF Preflight, SecondPass, Finish, RolledBack, unpackVars, Working
<1>2. (\A r \in created : ~RollBack(r)) /\ \A p, node : ~Stranger(p, node)
      BY DEF RollBack, Stranger, Working
<1>3. ~ Parents
      BY ParentsPass DEF Parents, Working
<1>4. ~ (ExtractEntry /\ UnpackDir)
      BY UnpackDirPasses DEF ExtractEntry, UnpackDir, Done, Working
<1>5. ~ (ExtractEntry /\ DeferLink)
      BY DEF ExtractEntry, DeferLink, Working
<1>6. CASE ExtractEntry /\ UnpackFile
  <2>1. Blocked(Entry) /\ UNCHANGED <<disk, job>> /\ Entry.kind \in {"file", "link"} /\ pc = "entries" /\ next <= Len(job.archive)
    <3>1. ~ Done(Entry.path)
          BY <1>6 DEF ExtractEntry, Done
    <3>. QED BY <1>6, <3>1 DEF ExtractEntry, UnpackFile, Fails
  <2>2. next \in DOMAIN job.archive /\ Entry = job.archive[next]
        BY <2>1, NextIs DEF UnpackInv
  <2>3. "dir" \in {Lstat(Entry.path).kind, Lstat(Landing(Entry.path)).kind}
        BY <2>1 DEF Blocked
  <2>4. Culprit
        BY <2>1, <2>2, <2>3, CulpritIs
  <2>. QED BY <2>1, <2>4 DEF Culprit, Entries, Before
<1>7. ASSUME NEW i \in DOMAIN job.archive, HardLink(i) PROVE Culprit'
  <2>. DEFINE e == job.archive[i]
              q == Landing(e.path)
  <2>0. Turn(i) /\ pc = "links" /\ e.kind = "hard"
        BY <1>7, TurnIs DEF HardLink, UnpackInv
  <2>1. ~ Linked(i)
        BY <2>0 DEF Linked
  <2>2. /\ Blocked(e) /\ job' = job
        /\ IF Lstat(q).kind = "dir" THEN UNCHANGED <<disk, torn>>
           ELSE disk' = Without(disk, Real(q)) /\ torn' = torn \cup {Real(q)}
        BY <1>7, <2>1 DEF HardLink, Fails
  <2>3. Lstat(q).kind = "dir"
        BY <2>0, <2>2, HardPasses DEF Blocked
  <2>4. disk' = disk
        BY <2>2, <2>3
  <2>5. Culprit
        BY <2>0, <2>3, CulpritIs
  <2>. QED BY <2>2, <2>4, <2>5 DEF Culprit, Entries, Before
<1>. QED BY <1>0, <1>1, <1>2, <1>3, <1>4, <1>5, <1>6, <1>7 DEF UnpackNext, ExtractEntry

\* Where a step may go.
LEMMA PcMoves ==
  ASSUME [UnpackNext]_unpackVars
  PROVE  \/ pc' = pc
         \/ Preflight /\ pc = "check" /\ pc' \in {"entries", "refused"}
         \/ pc = "entries" /\ pc' = "links"
         \/ pc \in {"entries", "links"} /\ pc' = "undo"
         \/ pc = "links" /\ pc' = "done"
         \/ pc = "undo" /\ pc' = "failed"
<1>1. CASE ExtractEntry
      BY <1>1 DEF ExtractEntry, UnpackDir, UnpackFile, DeferLink, Fails, Done
<1>2. CASE \E i \in DOMAIN job.archive : HardLink(i)
      BY <1>2 DEF HardLink, Turn, Fails, Linked
<1>3. CASE Preflight \/ Parents \/ SecondPass \/ Finish \/ ReadFails \/ MakeDirFails \/ RolledBack
      BY <1>3 DEF Preflight, Parents, SecondPass, Finish, ReadFails, MakeDirFails, RolledBack, Fails, Fault
<1>4. CASE WriteFails
      BY <1>4 DEF WriteFails, Turn, Fails, Fault
<1>5. CASE \E r \in created : RollBack(r)
      BY <1>5 DEF RollBack
<1>6. CASE \E p \in job.near, node \in {Dir, StrayFile} : Stranger(p, node)
      BY <1>6 DEF Stranger
<1>7. CASE UNCHANGED unpackVars
      BY <1>7 DEF unpackVars
<1>. QED BY <1>1, <1>2, <1>3, <1>4, <1>5, <1>6, <1>7 DEF UnpackNext

LEMMA ForePreflight ==
  ASSUME UnpackInv, Tidy(job), Steady(job), Expected(job), Preflight, pc' = "entries", next = 1, links = {}
  PROVE  (WaysFree /\ FoldersFree /\ BesideFree /\ SolidFree /\ FilesThere /\ FrontsThere)'
<1>0. /\ Base /\ pc = "check" /\ disk = job.disk /\ UNCHANGED <<job, disk, next, links>> /\ Entries = ToSet(job.archive)
      BY DEF Preflight, UnpackInv, BookOK, work, Entries
<1>1. \A e \in Entries : ~DirConflict(e) /\ ~FileConflict(e)
      BY DEF Preflight, FindConflicts
<1>2. ASSUME NEW e \in Entries, NEW a \in Ancestors(e.path) \cap DOMAIN disk PROVE disk[a].kind = "dir"
  <2>1. a \in Ways(job) /\ Reach(job, a) /\ e.path \in Places /\ Reach(job, e.path)
        BY <1>0, <1>2, EntryReach, WaysReach DEF Ways, Base, Reach
  <2>2. CASE BlockedAncestor(e.path)
    <3>1. e.kind # "dir" /\ Taken(e.path)
          BY <1>1, <1>2, <2>2 DEF DirConflict, FileConflict
    <3>2. e.path \in DOMAIN disk
          BY <1>0, <2>1, <3>1, Known
    <3>3. Under(a, e.path) /\ a \in Places
          BY <1>2, <2>1, AncestorsOf
    <3>. QED BY <1>0, <3>2, <3>3, TreeIs DEF Base
  <2>3. CASE ~BlockedAncestor(e.path)
    <3>1. Taken(a)
          BY <1>0, <1>2, <2>1, Known
    <3>2. Stat(a).kind = "dir"
          BY <1>2, <2>3, <3>1 DEF BlockedAncestor
    <3>. QED BY <1>0, <2>1, <3>2, WayKnown
  <2>. QED BY <2>2, <2>3
<1>3. ASSUME NEW p \in Folders(job) \cap DOMAIN disk
      PROVE  \/ disk[p].kind = "dir"
             \/ /\ disk[p].kind = "link" /\ disk[p].to \notin Solid(job)
                /\ disk[p].to \in DOMAIN disk /\ disk[disk[p].to].kind = "dir"
  <2>1. PICK e \in Entries : e.kind = "dir" /\ e.path = p
        BY <1>0, <1>3 DEF Folders
  <2>2. Reach(job, p) /\ Node(p) = disk[p] /\ disk[p].kind \in {"dir", "file", "link"}
        BY <1>0, <1>3, <2>1, EntryReach, NodeIs DEF Base
  <2>3. Taken(p) /\ Stat(p) = Node(Follow(p))
        BY <1>0, <1>3, <2>2, Known
  <2>4. Stat(p).kind = "dir"
        BY <1>1, <2>1, <2>3 DEF DirConflict
  <2>5. CASE disk[p].kind = "file"
        BY <1>0, <2>2, <2>3, <2>4, <2>5, NodeIs
  <2>6. CASE disk[p].kind = "link"
    <3>1. Follow(p) = disk[p].to
          BY <2>2, <2>6 DEF Follow
    <3>2. disk[p].to \in DOMAIN disk /\ disk[disk[p].to].kind = "dir"
          BY <1>0, <2>3, <2>4, <3>1, NodeIs
    <3>3. disk[p].to \notin Solid(job)
          BY <1>0, <1>3, <2>1, <2>6 DEF Steady
    <3>. QED BY <2>6, <3>2, <3>3
  <2>. QED BY <2>2, <2>5, <2>6
<1>4. \A p \in Beside(job) \cap DOMAIN disk : disk[p].kind # "dir"
      BY <1>0 DEF Expected
<1>5. ASSUME NEW p \in Solid(job) \cap DOMAIN disk, disk[p].kind = "dir"
      PROVE  Before(p).kind = "dir" /\ (p \in job.mine \/ Bare(disk, p))
  <2>1. PICK e \in Entries : e.kind # "dir" /\ e.path = p
        BY <1>0, <1>5 DEF Solid
  <2>2. Reach(job, p) /\ Node(p) = disk[p]
        BY <1>0, <1>5, <2>1, EntryReach, NodeIs DEF Base
  <2>3. Lstat(p).kind = "dir" /\ (Empty(p) <=> Bare(disk, p))
        BY <1>0, <1>5, <2>2, Known
  <2>4. p \in job.mine \/ Empty(p)
        BY <1>1, <2>1, <2>3 DEF FileConflict, OwnedByUpgrading
  <2>. QED BY <1>0, <1>5, <2>3, <2>4 DEF Before
<1>6. FilesThere
      BY <1>0, IndexIs DEF FilesThere, Base
<1>7. FrontsThere
      BY DEF FrontsThere
<1>8. WaysFree /\ FoldersFree /\ BesideFree /\ SolidFree
      BY <1>2, <1>3, <1>4, <1>5 DEF WaysFree, FoldersFree, BesideFree, SolidFree
<1>9. /\ WaysFree' /\ FoldersFree' /\ BesideFree' /\ SolidFree'
      BY <1>0, <1>8 DEF WaysFree, FoldersFree, BesideFree, SolidFree, Entries, Before
<1>10. FilesThere' /\ FrontsThere'
      BY <1>0, <1>6, <1>7 DEF FilesThere, FrontsThere, FrontMade
<1>. QED BY <1>9, <1>10

LEMMA ForeUndoes ==
  ASSUME UnpackInv, Tidy(job), Effect, Undoing, strays' = {}, Culprit
  PROVE  Culprit'
<1>0. job' = job /\ (Leaves \/ \E r \in created : Undoes(r))
  <2>1. /\ ~MakesDirs /\ ~TearsDirs /\ \A i, q : ~PutsNode(i, q) /\ ~CutsNode(i, q) /\ ~Tears(i, q)
        BY DEF MakesDirs, TearsDirs, PutsNode, CutsNode, Tears, Lands, Working, Undoing
  <2>2. \A p : ~Intrudes(p)
        BY DEF Intrudes
  <2>. QED BY <2>1, <2>2 DEF Effect
<1>1. PICK e \in Entries : /\ e.kind # "dir" /\ Before(e.path).kind = "dir"
                           /\ \/ e.path \in job.mine
                              \/ e.path \in DOMAIN disk /\ disk[e.path].kind = "dir" /\ Bare(disk, e.path)
      BY DEF Culprit
<1>2. SUFFICES ASSUME e.path \in DOMAIN disk, disk[e.path].kind = "dir", Bare(disk, e.path)
               PROVE  e.path \in DOMAIN disk' /\ disk'[e.path].kind = "dir" /\ Bare(disk', e.path)
      BY <1>0, <1>1 DEF Culprit, Entries, Before
<1>3. CASE Leaves
      BY <1>2, <1>3 DEF Leaves
<1>4. ASSUME NEW r \in created, Undoes(r)
      PROVE  e.path \in DOMAIN disk' /\ disk'[e.path].kind = "dir" /\ Bare(disk', e.path)
  <2>1. RecordOK(r)
        BY DEF UnpackInv, CreatedOK
  <2>2. e.path \in Had
        BY <1>1, Kinds DEF Before, Had
  <2>3. r.path # e.path
        BY <1>2, <2>1, <2>2 DEF RecordOK, Rec
  <2>4. DOMAIN disk' \subseteq DOMAIN disk
        BY <1>4, <2>1 DEF Undoes, With, Without, RecordOK
  <2>5. e.path \in DOMAIN disk' /\ disk'[e.path] = disk[e.path]
        BY <1>2, <1>4, <2>3 DEF Undoes, With, Without
  <2>. QED BY <1>2, <2>4, <2>5 DEF Bare
<1>. QED BY <1>0, <1>3, <1>4

LEMMA ForeStart == UnpackInit => ForeOK
BY DEF UnpackInit, ForeOK, Working, Undoing

LEMMA ForeNext ==
  ASSUME UnpackInv, Tidy(job), Steady(job), Expected(job), ForeOK, [UnpackNext]_unpackVars
  PROVE  ForeOK'
<1>0. /\ Effect /\ job' = job /\ strays \subseteq strays' /\ faults' \in {faults, faults + 1} /\ faults \in Nat
      BY StepDoes, NextMoves DEF UnpackInv, ForeOK
<1>1. faults' \in Nat
      BY <1>0
<1>2. pc' = "check" => next' = 1 /\ links' = {}
  <2>1. pc' = "check" => pc = "check" /\ UNCHANGED <<next, links>>
    <3>1. CASE ExtractEntry
          BY <3>1 DEF ExtractEntry, UnpackDir, UnpackFile, DeferLink, Fails, Done
    <3>2. CASE \E i \in DOMAIN job.archive : HardLink(i)
          BY <3>2 DEF HardLink, Turn, Fails, Linked
    <3>3. CASE Preflight \/ Parents \/ SecondPass \/ Finish \/ ReadFails \/ MakeDirFails \/ WriteFails \/ RolledBack
          BY <3>3 DEF Preflight, Parents, SecondPass, Finish, ReadFails, MakeDirFails, WriteFails, RolledBack,
                      Fails, Fault
    <3>4. CASE \E r \in created : RollBack(r)
          BY <3>4 DEF RollBack
    <3>5. CASE \E p \in job.near, node \in {Dir, StrayFile} : Stranger(p, node)
          BY <3>5 DEF Stranger
    <3>6. CASE UNCHANGED unpackVars
          BY <3>6 DEF unpackVars, work
    <3>. QED BY <3>1, <3>2, <3>3, <3>4, <3>5, <3>6 DEF UnpackNext
  <2>. QED BY <2>1 DEF ForeOK
<1>3. SUFFICES ASSUME OwnWay'
               PROVE  /\ Working' => (WaysFree /\ FoldersFree /\ BesideFree /\ SolidFree /\ FilesThere /\ FrontsThere)'
                      /\ Undoing' => Culprit'
      BY <1>1, <1>2 DEF ForeOK
<1>4. strays' = {} /\ faults' = 0 /\ OwnWay
      BY <1>0, <1>3 DEF OwnWay
<1>5. CASE Working
  <2>0. WaysFree /\ FoldersFree /\ BesideFree /\ SolidFree /\ FilesThere /\ FrontsThere
        BY <1>4, <1>5 DEF ForeOK
  <2>1. CASE Working'
    <3>1. Leaves \/ MakesDirs \/ \E i, q : PutsNode(i, q) \/ CutsNode(i, q)
          BY <1>0, <1>4, <1>5, <2>1, EffectHere
    <3>2. WaysFree' /\ FoldersFree' /\ BesideFree' /\ SolidFree'
          BY <1>0, <1>5, <2>0, <3>1, ForeTree
    <3>3. FilesThere' /\ FrontsThere'
          BY <1>5, <2>0, <3>1, ForeFiles
    <3>. QED BY <2>1, <3>2, <3>3 DEF Working, Undoing
  <2>2. CASE pc' = "undo"
        BY <1>0, <1>4, <1>5, <2>0, <2>2, ForeFails DEF Working
  <2>3. CASE ~Working' /\ pc' # "undo"
    <3>1. pc' # "failed"
          BY <1>5, <2>3, PcMoves DEF Working
    <3>. QED BY <2>3, <3>1 DEF Undoing
  <2>. QED BY <2>1, <2>2, <2>3
<1>6. CASE Undoing
  <2>1. Undoing'
        BY <1>6, PcMoves DEF Undoing
  <2>2. Culprit'
        BY <1>0, <1>4, <1>6, ForeUndoes DEF ForeOK
  <2>. QED BY <2>1, <2>2 DEF Undoing, Working
<1>7. CASE ~Working /\ ~Undoing
  <2>1. CASE Preflight /\ pc' = "entries"
    <3>1. next = 1 /\ links = {}
          BY <2>1 DEF Preflight, ForeOK
    <3>. QED BY <2>1, <3>1, ForePreflight DEF Working, Undoing
  <2>2. CASE ~ (Preflight /\ pc' = "entries")
    <3>1. ~Working' /\ ~Undoing'
          BY <1>7, <2>2, PcMoves DEF Working, Undoing
    <3>. QED BY <3>1
  <2>. QED BY <2>1, <2>2
<1>. QED BY <1>5, <1>6, <1>7

LEMMA ForeSees == UnpackInv /\ ForeOK => Foreseen
<1>1. SUFFICES ASSUME UnpackInv, ForeOK, pc = "failed", OwnWay PROVE Foreseen
      BY DEF Foreseen
<1>2. PICK e \in Entries : /\ e.kind # "dir" /\ Before(e.path).kind = "dir"
                           /\ \/ e.path \in job.mine
                              \/ e.path \in DOMAIN disk /\ disk[e.path].kind = "dir" /\ Bare(disk, e.path)
      BY <1>1 DEF ForeOK, Undoing, Culprit
<1>3. Reach(job, e.path)
      BY <1>1, <1>2, EntryReach DEF UnpackInv, Base, Entries
<1>4. Empty(e.path) \/ e.path \in job.mine
      BY <1>1, <1>2, <1>3, Known DEF UnpackInv
<1>. QED BY <1>2, <1>4 DEF Foreseen

-----------------------------------------------------------------------------
(* What an entry left stays: no later one lands where it is.               *)

Safe(x) == \A k \in Pend : job.archive[k].kind # "dir" => x \notin Spots(job, k)
Sure(x) == x \in DOMAIN disk /\ Safe(x)
Wanted(e) == IF e.kind = "hard" THEN disk[e.to] ELSE Shipped(e)
Compared(node) == IF node.kind = "link" THEN disk[node.to] ELSE node

OldLink(p) == p \in DOMAIN disk /\ disk[p].kind = "link" => p \in DOMAIN job.disk /\ disk[p] = job.disk[p]
AsShipped(e) ==
  \/ e.kind = "dir" /\ Sure(Follow(e.path)) /\ disk[Follow(e.path)].kind = "dir"
  \/ disk[e.path] = Wanted(e)
  \/ e.kind = "hard" /\ Sure(Follow(e.path)) /\ Follow(e.to) = Follow(e.path)
AsKept(e) ==
  /\ e.path \in job.backup
  /\ \/ /\ Sure(Follow(e.path)) /\ (Wanted(e).kind = "link" => Sure(Wanted(e).to))
        /\ SameBytes(disk[Follow(e.path)], Compared(Wanted(e)))
     \/ e.path \in pacnew /\ Sure(PacnewPath(e.path)) /\ disk[PacnewPath(e.path)] = Wanted(e)
Laid(e) ==
  /\ Sure(e.path) /\ (e.kind = "hard" => Sure(e.to)) /\ e.path \in installed
  /\ AsShipped(e) \/ AsKept(e)
  /\ e.kind = "file" => disk[e.path].kind # "dir" /\ OldLink(e.path)
                        /\ (disk[e.path].kind = "link" => e.path \in job.backup)

LaidOK ==
  /\ pc = "check" => next = 1
  /\ ~Undoing => \A i \in DOMAIN job.archive :
                   /\ job.archive[i].kind = "dir" \/ i \in Pend => OldLink(job.archive[i].path)
                   /\ i \notin Pend => Laid(job.archive[i])

LEMMA SafeIs == ASSUME job \in Scenarios, Tidy(job), NEW x, x \notin Puts(job) PROVE Safe(x)
<1>1. ASSUME NEW k \in Pend, job.archive[k].kind # "dir" PROVE x \notin Spots(job, k)
  <2>1. k \in DOMAIN job.archive
        BY DEF Pend
  <2>. QED BY <1>1, <2>1, SpotsIs
<1>. QED BY <1>1 DEF Safe

LEMMA SafeStays == ASSUME NEW x, Safe(x), job' = job, Pend' \subseteq Pend PROVE Safe(x)'
BY DEF Safe

LEMMA SafeOwn ==
  ASSUME job \in Scenarios, Tidy(job), job' = job, NEW i \in DOMAIN job.archive, i \notin Pend',
         NEW x \in Spots(job, i)
  PROVE  Safe(x)'
<1>1. ASSUME NEW k \in Pend' PROVE x \notin Spots(job, k)
  <2>1. k \in DOMAIN job.archive /\ k # i
        BY <1>1 DEF Pend
  <2>. QED BY <2>1, SpotsIs
<1>. QED BY <1>1 DEF Safe

LEMMA SureStays ==
  ASSUME UnpackInv, Tidy(job), Effect, ~Undoing, ~Undoing', NEW x, Sure(x)
  PROVE  Sure(x)' /\ disk'[x] = disk[x]
<1>1. x \in DOMAIN disk /\ Safe(x) /\ Safe(x)'
      BY SafeStays DEF Sure, Effect
<1>2. x \in DOMAIN disk' /\ disk'[x] = disk[x]
  <2>1. CASE Leaves
        BY <1>1, <2>1 DEF Leaves
  <2>2. CASE MakesDirs
    <3>1. PICK M : M \cap DOMAIN disk = {} /\ disk' = WithDirs(disk, M)
          BY <2>2 DEF MakesDirs
    <3>. QED BY <1>1, <3>1 DEF WithDirs
  <2>3. ASSUME NEW i, NEW q, PutsNode(i, q) \/ CutsNode(i, q)
        PROVE  x \in DOMAIN disk' /\ disk'[x] = disk[x]
    <3>1. x # q
          BY <1>1, <2>3 DEF PutsNode, CutsNode, Lands, Safe
    <3>2. CASE PutsNode(i, q)
      <4>1. PICK node : disk' = With(disk, q, node)
            BY <3>2 DEF PutsNode
      <4>. QED BY <1>1, <3>1, <4>1 DEF With
    <3>3. CASE CutsNode(i, q)
          BY <1>1, <3>1, <3>3 DEF CutsNode, Without
    <3>. QED BY <2>3, <3>2, <3>3
  <2>4. ASSUME NEW p, Intrudes(p) PROVE x \in DOMAIN disk' /\ disk'[x] = disk[x]
        BY <1>1, <2>4 DEF Intrudes, With
  <2>5. ~TearsDirs /\ \A i, q : ~Tears(i, q)
        BY DEF TearsDirs, Tears, Undoing
  <2>6. \A r : ~Undoes(r)
        BY DEF Undoes, Undoing
  <2>. QED BY <2>1, <2>2, <2>3, <2>4, <2>5, <2>6 DEF Effect
<1>. QED BY <1>1, <1>2 DEF Sure

LEMMA OldLinkStays ==
  ASSUME UnpackInv, Tidy(job), Effect, ~Undoing, ~Undoing', NEW i \in DOMAIN job.archive,
         job.archive[i].kind = "dir" \/ i \in Pend', OldLink(job.archive[i].path)
  PROVE  OldLink(job.archive[i].path)'
<1>. DEFINE p == job.archive[i].path
<1>1. SUFFICES ASSUME p \in DOMAIN disk', disk'[p].kind = "link"
               PROVE  p \in DOMAIN disk /\ disk'[p] = disk[p]
      BY DEF OldLink, Effect
<1>2. ASSUME NEW k, NEW q, PutsNode(k, q) PROVE p # q
  <2>1. k \in DOMAIN job.archive /\ q \in Spots(job, k) /\ q \notin Makes(job) /\ job.archive[k].kind # "dir"
        BY <1>2, LandsIs DEF PutsNode, Lands, UnpackInv
  <2>2. CASE job.archive[i].kind = "dir"
        BY <2>1, <2>2, SpotsIs DEF Makes, UnpackInv, Base
  <2>3. CASE job.archive[i].kind # "dir"
    <3>1. i # k
          BY <1>2, <2>3 DEF PutsNode
    <3>2. Spots(job, i) \cap Spots(job, k) = {}
          BY <2>1, <3>1, SpotsIs DEF UnpackInv, Base
    <3>. QED BY <2>1, <3>2 DEF Spots
  <2>. QED BY <2>2, <2>3
<1>. HIDE DEF p
<1>3. CASE Leaves
      BY <1>1, <1>3 DEF Leaves
<1>4. CASE MakesDirs
  <2>1. PICK M : M \cap DOMAIN disk = {} /\ disk' = WithDirs(disk, M)
        BY <1>4 DEF MakesDirs
  <2>. QED BY <1>1, <2>1, Kinds DEF WithDirs
<1>5. ASSUME NEW k, NEW q, PutsNode(k, q) PROVE p \in DOMAIN disk /\ disk'[p] = disk[p]
  <2>1. PICK node : disk' = With(disk, q, node)
        BY <1>5 DEF PutsNode
  <2>. QED BY <1>1, <1>2, <1>5, <2>1 DEF With
<1>6. ASSUME NEW k, NEW q, CutsNode(k, q) PROVE p \in DOMAIN disk /\ disk'[p] = disk[p]
      BY <1>1, <1>6 DEF CutsNode, Without
<1>7. ASSUME NEW q, Intrudes(q) PROVE p \in DOMAIN disk /\ disk'[p] = disk[p]
      BY <1>1, <1>7, Kinds DEF Intrudes, With
<1>8. ~TearsDirs /\ (\A k, q : ~Tears(k, q)) /\ \A r : ~Undoes(r)
      BY DEF TearsDirs, Tears, Undoing, Undoes
<1>. QED BY <1>3, <1>4, <1>5, <1>6, <1>7, <1>8 DEF Effect

LEMMA LaidStays ==
  ASSUME UnpackInv, Tidy(job), Effect, ~Undoing, ~Undoing', installed \subseteq installed', pacnew \subseteq pacnew',
         NEW e, Laid(e)
  PROVE  Laid(e)'
<1>. DEFINE p == e.path
            w == Wanted(e)
<1>0. job' = job
      BY DEF Effect
<1>1. Sure(p)' /\ disk'[p] = disk[p] /\ p \in DOMAIN disk /\ p \in DOMAIN disk'
  <2>1. Sure(p)
        BY DEF Laid
  <2>. QED BY <2>1, SureStays DEF Sure
<1>2. e.kind = "hard" => Sure(e.to)' /\ disk'[e.to] = disk[e.to] /\ e.to \in DOMAIN disk /\ e.to \in DOMAIN disk'
  <2>1. e.kind = "hard" => Sure(e.to)
        BY DEF Laid
  <2>. QED BY <2>1, SureStays DEF Sure
<1>3. Wanted(e)' = Wanted(e)
      BY <1>2 DEF Wanted, Shipped
<1>4. PICK f : f = Follow(p)
      OBVIOUS
<1>5. Follow(p)' = f
      BY <1>1, <1>4 DEF Follow, Node
<1>6. e.kind = "hard" => Follow(e.to)' = Follow(e.to)
      BY <1>2 DEF Follow, Node
<1>7. Sure(f) => Sure(f)' /\ disk'[f] = disk[f]
      BY SureStays
<1>8. CASE AsShipped(e)
  <2>1. \/ e.kind = "dir" /\ Sure(f) /\ disk[f].kind = "dir"
        \/ disk[p] = Wanted(e)
        \/ e.kind = "hard" /\ Sure(f) /\ Follow(e.to) = f
        BY <1>4, <1>8 DEF AsShipped
  <2>2. AsShipped(e)'
        BY <1>1, <1>3, <1>5, <1>6, <1>7, <2>1 DEF AsShipped, Sure, Safe
  <2>. QED BY <1>0, <1>1, <1>2, <2>2 DEF Laid, OldLink
<1>9. CASE AsKept(e)
  <2>1. PICK v : v = Wanted(e)
        OBVIOUS
  <2>2. Wanted(e)' = v
        BY <1>3, <2>1
  <2>3. PICK g : g = PacnewPath(p)
        OBVIOUS
  <2>4. PacnewPath(p)' = g
        BY <2>3 DEF PacnewPath
  <2>5. CASE Sure(f) /\ (v.kind = "link" => Sure(v.to)) /\ SameBytes(disk[f], Compared(v))
    <3>1. v.kind = "link" => Sure(v.to)' /\ disk'[v.to] = disk[v.to]
          BY <2>5, SureStays
    <3>2. Compared(v)' = Compared(v)
          BY <3>1 DEF Compared
    <3>3. SameBytes(disk[f], Compared(v))'
          BY <1>7, <2>5, <3>2 DEF SameBytes
    <3>4. AsKept(e)'
          BY <1>0, <1>5, <1>7, <1>9, <2>2, <2>5, <3>1, <3>3 DEF AsKept, Sure, Safe, Compared, SameBytes
    <3>. QED BY <1>0, <1>1, <1>2, <3>4 DEF Laid, OldLink
  <2>6. CASE p \in pacnew /\ Sure(g) /\ disk[g] = v
    <3>1. Sure(g)' /\ disk'[g] = v
          BY <2>6, SureStays
    <3>2. AsKept(e)'
          BY <1>0, <1>9, <2>2, <2>4, <2>6, <3>1 DEF AsKept, Sure, Safe
    <3>. QED BY <1>0, <1>1, <1>2, <3>2 DEF Laid, OldLink
  <2>. QED BY <1>4, <1>9, <2>1, <2>3, <2>5, <2>6 DEF AsKept
<1>. QED BY <1>8, <1>9 DEF Laid

\* Whose turn is over after a step, and what else grows.
LEMMA TurnEnds ==
  ASSUME UnpackInv, [UnpackNext]_unpackVars, NEW i \in Pend, i \notin Pend'
  PROVE  \/ /\ i = next /\ Entry = job.archive[i] /\ pc = "entries" /\ next <= Len(job.archive) /\ made
            /\ pc' = pc /\ Quiet /\ (UnpackDir \/ UnpackFile) /\ ~Fails /\ links' = links
         \/ HardLink(i) /\ Linked(i)
<1>0. i \in DOMAIN job.archive /\ i \in Nat /\ next \in Nat /\ (i >= next \/ i \in links)
      BY IndexIs DEF Pend, UnpackInv, Base, BookOK
<1>1. UNCHANGED <<job, next, links>> => i \in Pend'
      BY DEF Pend
<1>2. CASE ExtractEntry
  <2>1. ~Fails
        BY <1>1, <1>2 DEF ExtractEntry, Quiet, Fails, work
  <2>2. UnpackDir \/ UnpackFile \/ DeferLink
        BY <1>2 DEF ExtractEntry
  <2>3. job' = job /\ next' = next + 1 /\ pc' = pc /\ links \subseteq links' /\ (DeferLink => links' = links \cup {next})
        BY <2>1, <2>2 DEF UnpackDir, UnpackFile, DeferLink, Done, Skip
  <2>4. i = next
    <3>1. ~ (i >= next + 1) /\ i \notin links'
          BY <1>0, <2>3 DEF Pend
    <3>. QED BY <1>0, <2>3, <3>1
  <2>5. ~DeferLink
        BY <1>0, <2>3, <2>4 DEF Pend
  <2>6. links' = links
        BY <2>1, <2>2, <2>5 DEF UnpackDir, UnpackFile, Done
  <2>. QED BY <1>2, <2>1, <2>2, <2>3, <2>4, <2>5, <2>6 DEF ExtractEntry, Entry
<1>3. ASSUME NEW k \in DOMAIN job.archive, HardLink(k) PROVE HardLink(i) /\ Linked(i)
  <2>1. ~Fails
        BY <1>1 DEF Fails, work
  <2>2. Linked(k)
        BY <1>3, <2>1 DEF HardLink
  <2>3. job' = job /\ next' = next /\ links' = links \ {k}
        BY <2>2 DEF Linked
  <2>4. i = k
        BY <1>0, <2>3 DEF Pend
  <2>. QED BY <1>3, <2>2, <2>4
<1>4. CASE Preflight \/ Parents \/ SecondPass \/ Finish \/ ReadFails \/ MakeDirFails \/ WriteFails \/ RolledBack
      BY <1>1, <1>4 DEF Preflight, Parents, SecondPass, Finish, ReadFails, MakeDirFails, WriteFails, RolledBack,
                  Fails, Fault, work, Quiet
<1>5. CASE \E r \in created : RollBack(r)
      BY <1>1, <1>5 DEF RollBack, Quiet
<1>6. CASE \E p \in job.near, node \in {Dir, StrayFile} : Stranger(p, node)
      BY <1>1, <1>6 DEF Stranger, work
<1>7. CASE UNCHANGED unpackVars
      BY <1>1, <1>7 DEF unpackVars, work
<1>. QED BY <1>2, <1>3, <1>4, <1>5, <1>6, <1>7 DEF UnpackNext

LEMMA Grows ==
  ASSUME UnpackInv, [UnpackNext]_unpackVars
  PROVE  /\ installed \subseteq installed' /\ pacnew \subseteq pacnew'
         /\ pc \notin {"entries", "links", "undo"} =>
              /\ UNCHANGED <<job, disk, next, links, installed, pacnew>>
              /\ pc' = "check" => pc = "check"
<1>. DEFINE Same == UNCHANGED <<job, disk, next, links, installed, pacnew>>
<1>1. CASE ExtractEntry
  <2>1. CASE UnpackDir \/ DeferLink
        BY <1>1, <2>1 DEF ExtractEntry, UnpackDir, DeferLink, Fails, work, Done
  <2>2. CASE UnpackFile
        BY <1>1, <2>2 DEF ExtractEntry, UnpackFile, Fails, work, Done, Place, Write, WriteBeside
  <2>. QED BY <1>1, <2>1, <2>2 DEF ExtractEntry
<1>2. CASE \E i \in DOMAIN job.archive : HardLink(i)
      BY <1>2 DEF HardLink, Turn, Fails, work, Linked, Place, Write, WriteBeside
<1>3. CASE Preflight \/ SecondPass \/ Finish \/ ReadFails \/ RolledBack
      BY <1>3 DEF Preflight, SecondPass, Finish, ReadFails, RolledBack, Fails, Fault, work, Quiet
<1>4. CASE Parents \/ MakeDirFails
      BY <1>4 DEF Parents, MakeDirFails, Fails, Fault, work
<1>5. CASE WriteFails
      BY <1>5 DEF WriteFails, Turn, Fails, Fault, work
<1>6. CASE \E r \in created : RollBack(r)
      BY <1>6 DEF RollBack, Quiet
<1>7. CASE \E p \in job.near, node \in {Dir, StrayFile} : Stranger(p, node)
      BY <1>7 DEF Stranger, work, Over, UnpackInv, BookOK
<1>8. CASE UNCHANGED unpackVars
      BY <1>8 DEF unpackVars, work
<1>. QED BY <1>1, <1>2, <1>3, <1>4, <1>5, <1>6, <1>7, <1>8 DEF UnpackNext

\* A directory entry: made, there before, or what a symlink points to.
LEMMA LaidDir ==
  ASSUME UnpackInv, Tidy(job), Steady(job), Settled(job), LaidOK, [UnpackNext]_unpackVars,
         pc = "entries", next <= Len(job.archive), pc' = pc, UnpackDir, ~Fails, Quiet,
         NEW e, e = job.archive[next]
  PROVE  Laid(e)'
<1>. DEFINE p == e.path
            M == Missing(p)
<1>0. /\ next \in DOMAIN job.archive /\ Entry = e /\ e.kind = "dir" /\ p # <<>> /\ p \in Places /\ Reach(job, p)
      /\ e \in ToSet(job.archive) /\ Base /\ BookOK /\ Effect /\ job' = job /\ Working /\ ~Undoing' /\ ~Undoing
      BY NextIs, PathIs, StepDoes DEF UnpackInv, UnpackDir, Working, Undoing, Effect
<1>1. CanMake(p) /\ CreateDirs(p) /\ Done(p)
      BY <1>0 DEF UnpackDir
<1>2. p \in Folders(job) /\ p \notin Puts(job) /\ Safe(p) /\ Safe(p)'
      BY <1>0, Apart, SafeIs, SafeStays DEF Folders, Makes, Effect, Base
<1>3. OldLink(p)
      BY <1>0 DEF LaidOK
<1>4. p \in installed'
      BY <1>1 DEF Done
<1>5. Steps(p) \subseteq Makes(job) /\ p \in Steps(p)
      BY <1>0, <1>2, StepsOf DEF Reach, Makes
<1>6. \A q \in M : q \notin DOMAIN disk /\ Real(q) = q
      BY <1>0, <1>1, <1>5, MissingIs
<1>7. disk' = WithDirs(disk, M)
  <2>1. {Real(q) : q \in M} = M
        BY <1>6
  <2>. QED BY <1>1, <2>1 DEF CreateDirs
<1>. HIDE DEF M, p
<1>8. CASE p \in M
  <2>1. p \in DOMAIN disk' /\ disk'[p].kind = "dir"
        BY <1>7, <1>8, Kinds DEF WithDirs
  <2>2. Follow(p)' = p
        BY <2>1 DEF Follow, Node
  <2>3. AsShipped(e)' /\ Sure(p)'
        BY <1>0, <1>2, <2>1, <2>2 DEF AsShipped, Sure, p
  <2>. QED BY <1>0, <1>4, <2>3 DEF Laid, p
<1>9. CASE p \notin M
  <2>1. PICK f : f = Follow(p)
        OBVIOUS
  <2>2. Exists(p)
        BY <1>5, <1>9 DEF M, Missing
  <2>3. f \in DOMAIN disk /\ Stat(p) = Node(f)
        BY <1>0, <2>1, <2>2, Known
  <2>4. p \in DOMAIN disk
        BY <1>0, <2>1, <2>3, NodeIs
  <2>5. Stat(p).kind = "dir"
        BY <1>0, <1>1, <1>5, <2>4, Known DEF CanMake
  <2>6. disk[f].kind = "dir"
        BY <1>0, <2>3, <2>5, NodeIs
  <2>7. Safe(f)
    <3>1. CASE disk[p].kind = "link"
      <4>1. p \in DOMAIN job.disk /\ job.disk[p].kind = "link" /\ f = job.disk[p].to
            BY <1>3, <2>1, <2>4, <3>1 DEF OldLink, Follow, Node
      <4>2. f \notin Solid(job)
            BY <1>0, <4>1 DEF Steady, p
      <4>3. f \notin Beside(job)
            BY <4>1 DEF Settled
      <4>. QED BY <1>0, <4>2, <4>3, SafeIs DEF Puts, Base
    <3>2. CASE disk[p].kind # "link"
          BY <1>0, <1>2, <2>1, <2>4, <3>2, NodeIs
    <3>. QED BY <3>1, <3>2
  <2>8. Sure(f) /\ Sure(p)
        BY <1>2, <2>3, <2>4, <2>7 DEF Sure
  <2>9. Sure(f)' /\ disk'[f] = disk[f] /\ Sure(p)' /\ disk'[p] = disk[p]
        BY <1>0, <2>8, SureStays
  <2>10. Follow(p)' = f
    <3>1. p \in DOMAIN disk' /\ p \in DOMAIN disk
          BY <2>4, <2>9 DEF Sure
    <3>. QED BY <2>1, <2>9, <3>1 DEF Follow, Node
  <2>11. AsShipped(e)'
        BY <1>0, <2>6, <2>9, <2>10 DEF AsShipped, Sure, Safe, p
  <2>. QED BY <1>0, <1>4, <2>9, <2>11 DEF Laid, p
<1>. QED BY <1>8, <1>9

\* Any other entry: where it lands, or what was kept instead.
LEMMA LaidPlace ==
  ASSUME UnpackInv, Tidy(job), Settled(job), LaidOK, Working, job' = job, Pend' \subseteq Pend,
         NEW i \in Pend, i \notin Pend', NEW e, e = job.archive[i], e.kind # "dir",
         NEW node, ~Blocked(e), Place(e.path, node), e.path \in installed',
         e.kind # "hard" => node = Shipped(e),
         e.kind = "hard" => Sure(e.to) /\ node = disk[e.to] /\ e.to \notin Spots(job, i),
         node.kind = "link" /\ e.path \in job.backup => node.to \notin Beside(job) /\ Safe(node.to)'
  PROVE  Laid(e)'
<1>. DEFINE p == e.path
<1>0. /\ i \in DOMAIN job.archive /\ pc \notin {"check", "refused"} /\ Base /\ BookOK /\ ~Undoing
      /\ p # <<>> /\ p \in Places /\ Reach(job, p) /\ e \in ToSet(job.archive)
      BY PathIs DEF Pend, Working, Undoing, UnpackInv
<1>1. PICK q : q = Landing(p)
      OBVIOUS
<1>2. /\ q \in Spots(job, i) /\ Reach(job, q)
      /\ p \in job.backup /\ p \in DOMAIN disk => Spared(p) /\ q = PacnewPath(p) /\ q \in Beside(job)
      /\ p \notin job.backup \/ p \notin DOMAIN disk => ~Spared(p) /\ q = p /\ q \notin Beside(job)
      BY <1>0, <1>1, LandingIs
<1>3. Safe(p)' /\ Safe(q)' /\ p \in Spots(job, i)
  <2>1. p \in Spots(job, i)
        BY DEF Spots
  <2>. QED BY <1>0, <1>2, <2>1, SafeOwn DEF Base
<1>4. OldLink(p)
      BY <1>0 DEF LaidOK
<1>5. Real(p) = p /\ Lstat(p) = Node(p) /\ Real(q) = q /\ Stat(p) = Node(Follow(p))
      BY <1>0, <1>2, Known
<1>6. p \in Solid(job)
      BY <1>0 DEF Solid
<1>7. CASE ~Spared(p)
  <2>1. q = p /\ disk' = With(disk, p, node)
        BY <1>2, <1>5, <1>7 DEF Place, Write
  <2>2. p \in DOMAIN disk' /\ disk'[p] = node
        BY <2>1 DEF With
  <2>3. Wanted(e)' = node
    <3>1. CASE e.kind = "hard"
      <4>1. e.to \in DOMAIN disk /\ e.to # p
            BY <1>3, <3>1 DEF Sure
      <4>. QED BY <2>1, <3>1, <4>1 DEF Wanted, With
    <3>2. CASE e.kind # "hard"
          BY <3>2 DEF Wanted, Shipped
    <3>. QED BY <3>1, <3>2
  <2>4. e.kind = "hard" => Sure(e.to)'
        BY <2>1, SafeStays DEF Sure, With
  <2>5. e.kind = "file" => node.kind = "file"
        BY DEF Shipped
  <2>6. AsShipped(e)' /\ Sure(p)'
        BY <1>3, <2>2, <2>3 DEF AsShipped, Sure
  <2>. QED BY <2>2, <2>4, <2>5, <2>6 DEF Laid, OldLink
<1>8. CASE Spared(p)
  <2>1. /\ q = PacnewPath(p) /\ q \in Beside(job) /\ p \in job.backup /\ p \in DOMAIN disk /\ p # q
        /\ WriteBeside(p, node)
        BY <1>0, <1>2, <1>6, <1>8, Apart DEF Place, Base
  <2>2. \A x \in DOMAIN disk : x # q => x \in DOMAIN disk' /\ disk'[x] = disk[x]
        BY <1>5, <2>1 DEF WriteBeside, With, Without
  <2>3. p \in DOMAIN disk' /\ disk'[p] = disk[p] /\ Sure(p)'
        BY <1>3, <2>1, <2>2 DEF Sure
  <2>4. e.kind = "hard" => Sure(e.to)' /\ disk'[e.to] = disk[e.to]
        BY <1>2, <2>2, SafeStays DEF Sure
  <2>5. Wanted(e)' = node
        BY <2>4 DEF Wanted, Shipped
  <2>6. e.kind = "file" => disk[p].kind # "dir"
        BY <1>5, <2>1 DEF Blocked, Node
  <2>7. OldLink(p)'
        BY <1>4, <2>1, <2>3 DEF OldLink
  <2>8. AsKept(e)'
    <3>1. CASE SameBytes(Stat(p), Content(node))
      <4>1. PICK f : f = Follow(p)
            OBVIOUS
      <4>2. f \in DOMAIN disk /\ disk[f] = Stat(p)
            BY <1>0, <1>5, <3>1, <4>1, NodeIs DEF SameBytes
      <4>3. Safe(f)' /\ f # q
        <5>1. CASE disk[p].kind = "link"
          <6>1. p \in DOMAIN job.disk /\ job.disk[p].kind = "link" /\ f = job.disk[p].to
                BY <1>4, <2>1, <4>1, <5>1 DEF OldLink, Follow, Node
          <6>2. f \notin Beside(job)
                BY <6>1 DEF Settled
          <6>3. f \notin Solid(job)
                BY <1>0, <2>1, <6>1 DEF Settled
          <6>4. Safe(f)
                BY <1>0, <6>2, <6>3, SafeIs DEF Puts, Base
          <6>. QED BY <2>1, <6>2, <6>4, SafeStays
        <5>2. CASE disk[p].kind # "link"
              BY <1>0, <1>3, <2>1, <4>1, <5>2, NodeIs
        <5>. QED BY <5>1, <5>2
      <4>4. f \in DOMAIN disk' /\ disk'[f] = Stat(p) /\ Sure(f)'
            BY <2>2, <4>2, <4>3 DEF Sure
      <4>5. Follow(p)' = f
            BY <2>1, <2>3, <4>1 DEF Follow, Node
      <4>6. node.kind = "link" => Sure(node.to)' /\ disk'[node.to] = Content(node)
        <5>1. SUFFICES ASSUME node.kind = "link" PROVE Sure(node.to)' /\ disk'[node.to] = Content(node)
              OBVIOUS
        <5>2. Content(node) = Node(node.to) /\ Content(node).kind = "file"
              BY <3>1, <5>1 DEF Content, SameBytes
        <5>3. node.to \in DOMAIN disk /\ disk[node.to] = Content(node)
              BY <1>0, <5>2, NodeIs
        <5>. QED BY <2>1, <2>2, <5>1, <5>3 DEF Sure
      <4>7. Compared(node)' = Content(node)
            BY <4>6 DEF Compared, Content
      <4>8. SameBytes(disk[f], Compared(node))'
            BY <3>1, <4>4, <4>7 DEF SameBytes
      <4>. QED BY <2>1, <2>5, <4>4, <4>5, <4>6, <4>8 DEF AsKept, Sure, Safe, Compared, SameBytes
    <3>2. CASE ~SameBytes(Stat(p), Content(node))
      <4>1. disk' = With(disk, q, node) /\ p \in pacnew'
            BY <1>5, <2>1, <3>2 DEF WriteBeside
      <4>2. q \in DOMAIN disk' /\ disk'[q] = node
            BY <4>1 DEF With
      <4>3. PacnewPath(p)' = q
            BY <2>1 DEF PacnewPath
      <4>. QED BY <1>3, <2>1, <2>5, <4>1, <4>2, <4>3 DEF AsKept, Sure, Safe
    <3>. QED BY <3>1, <3>2
  <2>. QED BY <2>1, <2>3, <2>4, <2>6, <2>7, <2>8 DEF Laid
<1>. QED BY <1>7, <1>8

\* An entry whose turn came in the first pass.
LEMMA LaidFile ==
  ASSUME UnpackInv, Tidy(job), Settled(job), LaidOK, [UnpackNext]_unpackVars,
         pc = "entries", next <= Len(job.archive), pc' = pc, UnpackFile, ~Fails, Quiet,
         next \notin Pend', links' = links, NEW e, e = job.archive[next]
  PROVE  Laid(e)'
<1>. DEFINE p == e.path
<1>0. /\ next \in DOMAIN job.archive /\ Entry = e /\ e.kind \in {"file", "link"} /\ Reach(job, p)
      /\ e \in ToSet(job.archive) /\ Base /\ BookOK /\ Effect /\ job' = job /\ Working /\ ~Undoing' /\ ~Undoing
      /\ next \in Pend /\ Pend' \subseteq Pend
      BY NextIs, PathIs, StepDoes DEF UnpackInv, UnpackFile, Working, Undoing, Effect
<1>1. p \in installed' /\ Skip
      BY <1>0 DEF UnpackFile, Done
<1>2. CASE InPlace(e)
  <2>1. UNCHANGED <<disk, created, pacnew>>
        BY <1>0, <1>2 DEF UnpackFile
  <2>2. e.kind = "link" /\ Lstat(p) = Shipped(e)
        BY <1>0, <1>2 DEF InPlace
  <2>3. Node(p) = Shipped(e) /\ Shipped(e).kind = "link"
        BY <1>0, <2>2, Known DEF Shipped
  <2>4. p \in DOMAIN disk /\ disk[p] = Shipped(e)
        BY <1>0, <2>3, NodeIs
  <2>5. Safe(p)'
        BY <1>0, SafeOwn DEF Spots, Base
  <2>6. disk' = disk
        BY <2>1
  <2>7. AsShipped(e)' /\ Sure(p)'
        BY <2>2, <2>4, <2>5, <2>6 DEF AsShipped, Sure, Wanted, Shipped
  <2>. QED BY <1>1, <2>2, <2>7 DEF Laid
<1>3. CASE ~InPlace(e)
  <2>1. ~Blocked(e) /\ Place(p, Shipped(e))
        BY <1>0, <1>3 DEF UnpackFile
  <2>2. PICK node : node = Shipped(e)
        OBVIOUS
  <2>3. ASSUME node.kind = "link", p \in job.backup PROVE node.to \notin Beside(job) /\ Safe(node.to)'
    <3>1. e.kind = "link" /\ node.to = e.to /\ e.to \notin Beside(job)
          BY <1>0, <2>2, <2>3 DEF Shipped, Settled
    <3>2. ASSUME NEW k \in Pend', job.archive[k].kind # "dir" PROVE e.to \notin Spots(job, k)
      <4>1. k \in DOMAIN job.archive /\ k \in Nat /\ next \in Nat
            BY <1>0, <3>2, IndexIs DEF Pend, Base, BookOK
      <4>2. CASE job.archive[k].path = e.to
        <5>1. k < next /\ job.archive[k].kind # "hard"
              BY <1>0, <2>3, <3>1, <3>2, <4>1, <4>2 DEF Settled
        <5>2. next' = next + 1
              BY <1>1 DEF Skip
        <5>3. k \in links
          <6>1. ~ (k >= next')
                BY <4>1, <5>1, <5>2
          <6>. QED BY <3>2, <6>1 DEF Pend
        <5>4. job.archive[k].kind = "hard"
              BY <1>0, <5>3 DEF BookOK
        <5>. QED BY <5>1, <5>4
      <4>3. CASE job.archive[k].path # e.to
            BY <3>1, <4>3 DEF Spots, Beside
      <4>. QED BY <4>2, <4>3
    <3>3. Safe(e.to)'
          BY <1>0, <3>2 DEF Safe
    <3>. QED BY <3>1, <3>3
  <2>4. e.kind # "dir" /\ e.kind # "hard" /\ Place(p, node)
        BY <1>0, <2>1, <2>2
  <2>. QED BY <1>0, <1>1, <2>1, <2>2, <2>3, <2>4, LaidPlace
<1>. QED BY <1>2, <1>3

\* What a hard link names: a file of the archive, whose turn is over.
LEMMA SourceIs ==
  ASSUME UnpackInv, Tidy(job), Steady(job), Settled(job), LaidOK, NEW i \in DOMAIN job.archive, Turn(i),
         NEW x, x = job.archive[i].to
  PROVE  /\ Sure(x) /\ disk[x].kind # "dir" /\ x \notin Spots(job, i) /\ Reach(job, x)
         /\ x \notin Beside(job)
         /\ disk[x].kind = "link" => disk[x].to \notin Puts(job)
<1>0. /\ Base /\ BookOK /\ ~Undoing /\ pc = "links" /\ job.archive[i].kind = "hard"
      /\ job.archive[i] \in ToSet(job.archive) /\ next > Len(job.archive)
      BY TurnIs DEF UnpackInv, Undoing
<1>1. Reach(job, x) /\ x \in Sources(job)
      BY <1>0, EntryReach DEF Base, Sources
<1>2. PICK f \in ToSet(job.archive) : f.kind = "file" /\ f.path = x
      BY <1>1 DEF Steady
<1>3. PICK k \in DOMAIN job.archive : f = job.archive[k]
      BY <1>0, IndexIs DEF Base
<1>4. k \notin Pend
  <2>1. k \notin links
        BY <1>0, <1>2, <1>3 DEF BookOK
  <2>2. ~ (k >= next)
        BY <1>0, <1>3, IndexIs DEF Base, BookOK
  <2>. QED BY <2>1, <2>2 DEF Pend
<1>5. Laid(f)
      BY <1>0, <1>3, <1>4 DEF LaidOK
<1>6. Sure(x) /\ disk[x].kind # "dir" /\ OldLink(x) /\ (disk[x].kind = "link" => x \in job.backup)
      BY <1>2, <1>5 DEF Laid
<1>7. x \in Solid(job) /\ x \notin Beside(job)
  <2>1. x \in Solid(job)
        BY <1>2 DEF Solid
  <2>. QED BY <1>0, <2>1, Apart DEF Base
<1>8. x \notin Spots(job, i)
  <2>1. i # k
        BY <1>0, <1>2, <1>3
  <2>2. x \in Spots(job, k)
        BY <1>2, <1>3 DEF Spots
  <2>. QED BY <1>0, <2>1, <2>2, SpotsIs DEF Base
<1>9. ASSUME disk[x].kind = "link" PROVE disk[x].to \notin Puts(job)
  <2>1. x \in DOMAIN job.disk /\ disk[x] = job.disk[x] /\ x \in job.backup
        BY <1>6, <1>9 DEF OldLink, Sure
  <2>2. job.disk[x].to \notin Beside(job)
        BY <1>9, <2>1 DEF Settled
  <2>3. job.disk[x].to \notin Solid(job)
        BY <1>2, <1>3, <1>9, <2>1 DEF Settled
  <2>. QED BY <2>1, <2>2, <2>3 DEF Puts
<1>. QED BY <1>1, <1>6, <1>7, <1>8, <1>9

LEMMA LaidHard ==
  ASSUME UnpackInv, Tidy(job), Steady(job), Settled(job), LaidOK, [UnpackNext]_unpackVars,
         NEW i \in Pend, i \notin Pend', HardLink(i), Linked(i), NEW e, e = job.archive[i]
  PROVE  Laid(e)'
<1>. DEFINE p == e.path
            x == e.to
<1>0. /\ i \in DOMAIN job.archive /\ Turn(i) /\ pc = "links" /\ Working /\ e.kind = "hard" /\ Base /\ BookOK
      /\ Effect /\ job' = job /\ pc' = pc /\ ~Undoing' /\ ~Undoing /\ Pend' \subseteq Pend
      BY TurnIs, StepDoes DEF Pend, HardLink, UnpackInv, Linked, Effect, Undoing
<1>1. Reach(job, p) /\ p \in installed' /\ ~Fails /\ Safe(p)'
  <2>1. pc \notin {"check", "refused"}
        BY <1>0
  <2>. QED BY <1>0, <2>1, PathIs, SafeOwn DEF Linked, Fails, Spots, Base
<1>2. /\ Sure(x) /\ disk[x].kind # "dir" /\ x \notin Spots(job, i) /\ Reach(job, x) /\ x \notin Beside(job)
      /\ disk[x].kind = "link" => disk[x].to \notin Puts(job)
      BY <1>0, SourceIs
<1>3. x \in DOMAIN disk /\ Node(x) = disk[x] /\ Lstat(x) = disk[x]
      BY <1>0, <1>2, NodeIs, Known DEF Sure
<1>4. CASE InPlace(e)
  <2>1. disk' = disk
        BY <1>0, <1>4 DEF HardLink
  <2>2. SameFile(x, p)
        BY <1>0, <1>4 DEF InPlace
  <2>3. PICK f : f = Follow(p)
        OBVIOUS
  <2>4. f \in DOMAIN disk /\ Follow(x) = f
        BY <1>0, <1>1, <1>2, <2>2, <2>3, Known DEF SameFile
  <2>5. p \in DOMAIN disk
        BY <1>0, <2>3, <2>4, NodeIs
  <2>6. Safe(f)
    <3>1. CASE disk[x].kind = "link"
      <4>1. f = disk[x].to
            BY <1>3, <2>4, <3>1 DEF Follow
      <4>. QED BY <1>0, <1>2, <3>1, <4>1, SafeIs DEF Base
    <3>2. CASE disk[x].kind # "link"
          BY <1>0, <1>2, <1>3, <2>4, <3>2, NodeIs DEF Sure
    <3>. QED BY <3>1, <3>2
  <2>7. Sure(f)' /\ Sure(x)' /\ Sure(p)'
        BY <1>0, <1>1, <1>2, <2>1, <2>4, <2>5, <2>6, SafeStays DEF Sure
  <2>8. Follow(p)' = f /\ Follow(x)' = f
        BY <2>1, <2>3, <2>4 DEF Follow, Node
  <2>9. AsShipped(e)'
        BY <1>0, <2>7, <2>8 DEF AsShipped, Sure, Safe
  <2>. QED BY <1>0, <1>1, <2>7, <2>9 DEF Laid
<1>5. CASE ~InPlace(e)
  <2>1. PICK node : node = LinkSource(e)
        OBVIOUS
  <2>2. ~Blocked(e) /\ Place(p, node) /\ node = disk[x]
        BY <1>0, <1>1, <1>3, <1>5, <2>1 DEF HardLink, LinkSource
  <2>3. node.kind = "link" => node.to \notin Beside(job) /\ Safe(node.to)'
    <3>1. node.kind = "link" => node.to \notin Puts(job)
          BY <1>2, <2>2
    <3>2. node.kind = "link" => Safe(node.to)
          BY <1>0, <3>1, SafeIs DEF Base
    <3>. QED BY <1>0, <3>1, <3>2, SafeStays DEF Puts
  <2>. QED BY <1>0, <1>1, <1>2, <2>2, <2>3, LaidPlace
<1>. QED BY <1>4, <1>5

LEMMA LaidStart == ASSUME UnpackInit, Tidy(job) PROVE LaidOK
<1>1. job \in Scenarios /\ disk = job.disk /\ next = 1 /\ pc = "check"
      BY DEF UnpackInit
<1>2. DOMAIN job.archive \subseteq Pend
      BY <1>1, IndexIs DEF Pend
<1>. QED BY <1>1, <1>2 DEF LaidOK, OldLink

LEMMA LaidNext ==
  ASSUME UnpackInv, Tidy(job), Steady(job), Settled(job), LaidOK, [UnpackNext]_unpackVars
  PROVE  LaidOK'
<1>0. /\ Effect /\ job' = job /\ Base /\ BookOK /\ Pend' \subseteq Pend
      /\ installed \subseteq installed' /\ pacnew \subseteq pacnew'
      BY StepDoes, Grows DEF UnpackInv, Effect
<1>1. CASE ~Undoing /\ ~Undoing'
  <2>1. pc' = "check" => pc = "check" /\ next' = next
        BY <1>1, PcMoves, Grows DEF Working
  <2>2. ASSUME NEW i \in DOMAIN job.archive, job.archive[i].kind = "dir" \/ i \in Pend'
        PROVE  OldLink(job.archive[i].path)'
    <3>1. OldLink(job.archive[i].path)
          BY <1>0, <1>1, <2>2 DEF LaidOK
    <3>. QED BY <1>0, <1>1, <2>2, <3>1, OldLinkStays
  <2>3. ASSUME NEW i \in DOMAIN job.archive, i \notin Pend', NEW e, e = job.archive[i] PROVE Laid(e)'
    <3>1. CASE i \notin Pend
      <4>1. Laid(e)
            BY <1>1, <2>3, <3>1 DEF LaidOK
      <4>. QED BY <1>0, <1>1, <4>1, LaidStays
    <3>2. CASE i \in Pend
          BY <2>3, <3>2, TurnEnds, LaidDir, LaidFile, LaidHard
    <3>. QED BY <3>1, <3>2
  <2>4. ASSUME NEW i \in DOMAIN job.archive, i \notin Pend' PROVE Laid(job.archive[i])'
    <3>1. PICK e : e = job.archive[i]
          OBVIOUS
    <3>2. Laid(e)'
          BY <2>3, <2>4, <3>1
    <3>3. e = job'.archive[i]
          BY <1>0, <3>1
    <3>. QED BY <3>2, <3>3
  <2>. QED BY <1>0, <2>1, <2>2, <2>4 DEF LaidOK
<1>2. CASE Undoing
  <2>1. Undoing'
        BY <1>2, PcMoves DEF Undoing
  <2>. QED BY <2>1 DEF LaidOK, Undoing
<1>3. CASE Undoing'
      BY <1>3 DEF LaidOK, Undoing
<1>. QED BY <1>1, <1>2, <1>3

LEMMA LaidShows == UnpackInv /\ LaidOK => LaidOut
<1>1. SUFFICES ASSUME UnpackInv, LaidOK, pc = "done", NEW e \in Entries
               PROVE  LET want == IF e.kind = "hard" THEN LinkSource(e) ELSE Shipped(e)
                          p == e.path IN
                      /\ p \in installed
                      /\ \/ e.kind = "dir" /\ Stat(p).kind = "dir"
                         \/ Lstat(p) = want
                         \/ e.kind = "hard" /\ SameFile(e.to, p)
                         \/ /\ p \in job.backup
                            /\ \/ SameBytes(Stat(p), Content(want))
                               \/ p \in pacnew /\ Lstat(PacnewPath(p)) = want
      BY DEF LaidOut
<1>. DEFINE p == e.path
            want == IF e.kind = "hard" THEN LinkSource(e) ELSE Shipped(e)
<1>2. Base /\ BookOK /\ links = {} /\ next > Len(job.archive) /\ ~Undoing /\ e \in ToSet(job.archive)
      BY <1>1 DEF UnpackInv, BookOK, Undoing, Entries
<1>3. Laid(e)
  <2>1. PICK i \in DOMAIN job.archive : e = job.archive[i]
        BY <1>2, IndexIs DEF Base
  <2>2. i \notin Pend
        BY <1>2, IndexIs DEF Pend, Base, BookOK
  <2>. QED BY <1>1, <1>2, <2>1, <2>2 DEF LaidOK
<1>4. Reach(job, p) /\ (e.kind = "hard" => Reach(job, e.to))
      BY <1>2, EntryReach DEF Base
<1>5. p \in DOMAIN disk /\ Lstat(p) = disk[p] /\ Stat(p) = Node(Follow(p)) /\ (Exists(p) <=> Follow(p) \in DOMAIN disk)
      BY <1>2, <1>3, <1>4, Known DEF Laid, Sure, Node
<1>6. /\ e.kind = "hard" => LinkSource(e) = disk[e.to] /\ (Exists(e.to) <=> Follow(e.to) \in DOMAIN disk)
      /\ e.kind = "hard" => Real(e.to) = e.to
      /\ Real(p) = p
      BY <1>2, <1>3, <1>4, Known DEF Laid, Sure, Node, LinkSource
<1>7. want = Wanted(e)
      BY <1>6 DEF Wanted
<1>. HIDE DEF p, want
<1>8. CASE AsShipped(e)
  <2>1. CASE e.kind = "dir" /\ Sure(Follow(p)) /\ disk[Follow(p)].kind = "dir"
        BY <1>3, <1>5, <2>1 DEF Sure, Node, p, want, Laid
  <2>2. CASE disk[p] = Wanted(e)
        BY <1>3, <1>5, <1>7, <2>2 DEF p, want, Laid
  <2>3. CASE e.kind = "hard" /\ Sure(Follow(p)) /\ Follow(e.to) = Follow(p)
        BY <1>3, <1>5, <1>6, <2>3 DEF Sure, SameFile, p, want, Laid
  <2>. QED BY <1>8, <2>1, <2>2, <2>3 DEF AsShipped, p
<1>9. CASE AsKept(e)
  <2>1. p \in job.backup
        BY <1>9 DEF AsKept, p
  <2>2. CASE /\ Sure(Follow(p)) /\ (Wanted(e).kind = "link" => Sure(Wanted(e).to))
             /\ SameBytes(disk[Follow(p)], Compared(Wanted(e)))
    <3>1. Content(want) = Compared(Wanted(e)) /\ Stat(p) = disk[Follow(p)]
          BY <1>5, <1>7, <2>2 DEF Content, Compared, Sure, Node
    <3>. QED BY <1>3, <2>1, <2>2, <3>1 DEF p, want, Laid
  <2>3. CASE p \in pacnew /\ Sure(PacnewPath(p)) /\ disk[PacnewPath(p)] = Wanted(e)
    <3>1. PICK q : q = PacnewPath(p)
          OBVIOUS
    <3>2. Lstat(q) = disk[q]
          BY <1>2, <2>1, <2>3, <3>1, BackupReach, Known DEF Sure, Node, Base
    <3>. QED BY <1>3, <1>7, <2>1, <2>3, <3>1, <3>2 DEF p, want, Laid
  <2>. QED BY <1>9, <2>2, <2>3 DEF AsKept, p
<1>. QED BY <1>3, <1>8, <1>9 DEF Laid

-----------------------------------------------------------------------------
(* The theorems.                                                           *)

LEMMA UnpackAlways == Unpacking => [](Tidy(job) => UnpackInv)
<1>1. UnpackInit => (Tidy(job) => UnpackInv)
      BY InvStart
<1>2. (Tidy(job) => UnpackInv) /\ [UnpackNext]_unpackVars => (Tidy(job) => UnpackInv)'
  <2>. SUFFICES ASSUME Tidy(job) => UnpackInv, [UnpackNext]_unpackVars, Tidy(job') PROVE UnpackInv'
       BY DEF Tidy, Ways, Sources, Solid, Beside
  <2>1. job' = job
        BY NextMoves
  <2>. QED BY <2>1, InvNext
<1>. QED BY <1>1, <1>2, PTL DEF Unpacking

\* "Removes what a failed extraction wrote, and only that": for any archive, any
\* root it meets, any failing writes and any other process, as long as the paths
\* in it are tidy.
THEOREM UnpackTakesBack == Unpacking => [](Tidy(job) => TakenBack)
<1>1. (Tidy(job) => UnpackInv) => (Tidy(job) => TakenBack)
      BY InvTakesBack
<1>. QED BY <1>1, UnpackAlways, PTL

\* "Configuration on disk wins", through the run, a failure and the rollback.
THEOREM ConfigurationIsKept == Unpacking => [](Tidy(job) => ConfigurationWins)
<1>1. (Tidy(job) => UnpackInv) => (Tidy(job) => ConfigurationWins)
      BY DEF UnpackInv
<1>. QED BY <1>1, UnpackAlways, PTL

\* The install root stays a tree: no step of the extraction or of its rollback
\* takes off a directory that something is in, or puts anything but a directory
\* where something is below.
THEOREM RootStaysTree == Unpacking => [](Tidy(job) => IsTree(disk))
<1>1. (Tidy(job) => UnpackInv) => (Tidy(job) => IsTree(disk))
      BY DEF UnpackInv, Base
<1>. QED BY <1>1, UnpackAlways, PTL

\* What can be seen before the first byte is caught before it: an extraction on
\* its own fails only where the pre-flight let an entry meet a directory.
THEOREM FailureIsForeseen == Unpacking => [](Tidy(job) /\ Steady(job) /\ Expected(job) => Foreseen)
<1>. DEFINE P == Tidy(job) /\ Steady(job) /\ Expected(job) => ForeOK
<1>1. UnpackInit => P
      BY ForeStart
<1>2. P /\ (Tidy(job) => UnpackInv) /\ [UnpackNext]_unpackVars => P'
  <2>. SUFFICES ASSUME P, Tidy(job) => UnpackInv, [UnpackNext]_unpackVars,
                       (Tidy(job) /\ Steady(job) /\ Expected(job))'
                PROVE  ForeOK'
       OBVIOUS
  <2>1. job' = job
        BY NextMoves
  <2>2. Tidy(job) /\ Steady(job) /\ Expected(job)
        BY <2>1 DEF Tidy, Steady, Expected, Ways, Sources, Solid, Beside
  <2>. QED BY <2>2, ForeNext
<1>3. P /\ (Tidy(job) => UnpackInv) => (Tidy(job) /\ Steady(job) /\ Expected(job) => Foreseen)
      BY ForeSees
<1>. QED BY <1>1, <1>2, <1>3, UnpackAlways, PTL DEF Unpacking

\* What a finished extraction leaves: every entry as shipped, or the file that
\* was kept with the package's copy beside it.
THEOREM EveryEntryIsLaidOut == Unpacking => [](Tidy(job) /\ Steady(job) /\ Settled(job) => LaidOut)
<1>. DEFINE P == Tidy(job) /\ Steady(job) /\ Settled(job) => LaidOK
<1>1. UnpackInit => P
      BY LaidStart
<1>2. P /\ (Tidy(job) => UnpackInv) /\ [UnpackNext]_unpackVars => P'
  <2>. SUFFICES ASSUME P, Tidy(job) => UnpackInv, [UnpackNext]_unpackVars,
                       (Tidy(job) /\ Steady(job) /\ Settled(job))'
                PROVE  LaidOK'
       OBVIOUS
  <2>1. job' = job
        BY NextMoves
  <2>2. Tidy(job) /\ Steady(job) /\ Settled(job)
        BY <2>1 DEF Tidy, Steady, Settled, Ways, Sources, Solid, Beside
  <2>. QED BY <2>2, LaidNext
<1>3. P /\ (Tidy(job) => UnpackInv) => (Tidy(job) /\ Steady(job) /\ Settled(job) => LaidOut)
      BY LaidShows
<1>. QED BY <1>1, <1>2, <1>3, UnpackAlways, PTL DEF Unpacking
====
