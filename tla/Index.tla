---------------------------------- MODULE Index ----------------------------------
(***************************************************************************)
(* The sync databases as a command that changes nothing reads them: the    *)
(* system's copies, which root syncs, and the copies of one user, which    *)
(* unprivileged checks sync and which are seeded from the system's; the    *)
(* user's index of parsed databases, one entry per path; and the build of  *)
(* rvn that writes or reads it.  Files are inodes: a sync renames a new    *)
(* one into place, a seed writes into the one that is there.               *)
(***************************************************************************)
EXTENDS Naturals, Sequences, SequencesExt

CONSTANTS None,
          Config,      \* the repositories of pacman.conf, in order
          Readers,     \* processes of this user that check for updates
          Seeders,     \* processes that start with --user
          MaxClock,    \* bound on the writes of databases
          MaxBuild     \* bound on the builds of rvn installed

ASSUME IndexAssumption ==
    /\ Config # <<>> /\ Config \in Seq(ToSet(Config))
    /\ Readers \cap Seeders = {}
    /\ MaxClock \in Nat /\ MaxBuild \in Nat

VARIABLES place,   \* [path -> inode, or 0]: the databases by their paths
          file,    \* [inode -> its content and times]
          entry,   \* [path -> index entry or None]
          exe,     \* the build of rvn installed
          run,     \* [Procs -> a running rvn or None]
          clock    \* the last modification time given

vars == <<place, file, entry, exe, run, clock>>

Procs == Readers \cup Seeders
Repos == ToSet(Config)
Paths == {"system", "user"} \X Repos
Inodes == 1..MaxClock

\* What an inode holds: the arrival its bytes come from, its modification
\* time, whether it is complete, and (for the properties) whether it was as
\* new as the system's copy when it was written.
Blank == [content |-> 0, at |-> 0, whole |-> FALSE, sound |-> TRUE]

\* Size and modification time.
Stamp(f) == <<f.at, f.whole>>

Init == /\ place = [d \in Paths |-> 0] /\ file = [i \in Inodes |-> Blank]
        /\ entry = [d \in Paths |-> None]
        /\ exe = 1 /\ run = [p \in Procs |-> None]
        /\ clock = 0

-----------------------------------------------------------------------------
(* a running rvn *)

Held(d) == IF place[d] = 0 THEN Blank ELSE file[place[d]]

\* A check for updates that does not refresh: the system's copies are loaded,
\* then the user's, if they are the fresher.
Start(p) ==
    /\ p \in Readers /\ run[p] = None
    /\ run' = [run EXCEPT ![p] =
           [pc |-> "look", dir |-> "system", k |-> 1, build |-> exe,
            ino |-> 0, saw |-> Blank, stood |-> {}, got |-> None,
            base |-> [r \in Repos |-> Held(<<"system", r>>).content]]]
    /\ UNCHANGED <<place, file, entry, exe, clock>>

\* A command over the user's own prefix.
StartPrefix(p) ==
    /\ p \in Seeders /\ run[p] = None
    /\ run' = [run EXCEPT ![p] = [pc |-> "seed", dir |-> "user", k |-> 1, src |-> 0, ino |-> 0]]
    /\ UNCHANGED <<place, file, entry, exe, clock>>

\* It ends, by itself or killed, wherever it is.
End(p) == /\ run[p] # None
          /\ run' = [run EXCEPT ![p] = None]
          /\ UNCHANGED <<place, file, entry, exe, clock>>

At(p, pc) == run[p] # None /\ run[p].pc = pc
Repo(p) == Config[run[p].k]
Path(p) == <<run[p].dir, Repo(p)>>

\* The stamp of the executable: none once another has taken its place.  Its link
\* is read and the file it names looked at in one step.
ExeStamp(p) == IF run[p].build = exe THEN exe ELSE 0

-----------------------------------------------------------------------------
(* --user: the copies a prefix starts from *)

\* The next repository. What the command then reads, it reads as a check does.
Seeded(p) ==
    LET r == [run[p] EXCEPT !.src = 0, !.ino = 0]
    IN  IF r.k < Len(Config) THEN [r EXCEPT !.k = @ + 1, !.pc = "seed"]
        ELSE None

SeedCheck(p) ==
    /\ At(p, "seed")
    /\ run' = [run EXCEPT ![p] =
           IF place[Path(p)] # 0 \/ place[<<"system", Repo(p)>>] = 0
           THEN Seeded(p) ELSE [@ EXCEPT !.pc = "copy"]]
    /\ UNCHANGED <<place, file, entry, exe, clock>>

\* For the properties: whoever looked at inode i may find f in it from now on.
Meets(i, f) ==
    [p \in Procs |-> IF p \in Readers /\ run[p] # None /\ run[p].ino = i
                     THEN [run[p] EXCEPT !.stood = @ \cup {f}] ELSE run[p]]

\* The source is opened, and the target created, or emptied where it stands.
SeedOpen(p) ==
    LET src == place[<<"system", Repo(p)>>]
        ino == IF place[Path(p)] # 0 THEN place[Path(p)] ELSE clock + 1
        f == [content |-> 0, at |-> clock + 1, whole |-> FALSE, sound |-> FALSE]
    IN  /\ At(p, "copy") /\ src # 0 /\ clock < MaxClock
        /\ clock' = clock + 1
        /\ place' = [place EXCEPT ![Path(p)] = ino]
        /\ file' = [file EXCEPT ![ino] = f]
        /\ run' = [Meets(ino, f) EXCEPT ![p] = [run[p] EXCEPT !.pc = "copying", !.src = src, !.ino = ino]]
        /\ UNCHANGED <<entry, exe>>

\* A source that is gone ends the command.
SeedFails(p) ==
    /\ At(p, "copy") /\ place[<<"system", Repo(p)>>] = 0
    /\ run' = [run EXCEPT ![p] = None]
    /\ UNCHANGED <<place, file, entry, exe, clock>>

SeedDone(p) ==
    LET f == [content |-> file[run[p].src].content, at |-> clock + 1,
              whole |-> \A q \in Procs \ {p} : ~(At(q, "copying") /\ run[q].ino = run[p].ino),
              sound |-> place[<<"system", Repo(p)>>] = run[p].src]
    IN  /\ At(p, "copying") /\ clock < MaxClock
        /\ clock' = clock + 1
        /\ file' = [file EXCEPT ![run[p].ino] = f]
        /\ run' = [Meets(run[p].ino, f) EXCEPT ![p] = Seeded(p)]
        /\ UNCHANGED <<place, entry, exe>>

-----------------------------------------------------------------------------
(* reading one database *)

\* What reading one repository came to: nothing, or the packages of `content`
\* as `build` encodes them.  `stood`: what the file that was read held, from
\* the look at it to the answer.
Read(p, c, b, stood) == [repo |-> Repo(p), content |-> c, build |-> b, stood |-> stood]
Nothing(p, sound) == Read(p, 0, run[p].build, {[Blank EXCEPT !.sound = sound]})

\* load: the stamp is taken by path, before the entry is read.
Look(p) ==
    /\ At(p, "look")
    /\ run' = [run EXCEPT ![p] =
           [@ EXCEPT !.pc = IF place[Path(p)] = 0 THEN "open" ELSE "load", !.got = None,
                     !.ino = place[Path(p)], !.saw = Held(Path(p)), !.stood = {Held(Path(p))}]]
    /\ UNCHANGED <<place, file, entry, exe, clock>>

\* An entry has to be meant for this database and this build.
Describes(e, x, f) == e # None /\ e.exe = x /\ e.stamp = Stamp(f)

\* One repository is read: the next, or what follows the last one.
Answer(p, g) ==
    LET r == [run[p] EXCEPT !.got = g, !.ino = 0, !.saw = Blank, !.stood = {}]
    IN  run' = [run EXCEPT ![p] =
            IF r.k < Len(Config) THEN [r EXCEPT !.k = @ + 1, !.pc = "look"]
            ELSE [r EXCEPT !.k = 1, !.pc = IF r.dir = "system" THEN "prefer" ELSE "done"]]

Load(p) ==
    /\ At(p, "load")
    /\ LET e == entry[Path(p)]
       IN  IF Describes(e, ExeStamp(p), run[p].saw)
           THEN Answer(p, Read(p, e.content, e.build, run[p].stood))
           ELSE run' = [run EXCEPT ![p].pc = "open"]
    /\ UNCHANGED <<place, file, entry, exe, clock>>

\* Mutant: the entry takes the stamp of whatever has the name by then.
StampOfThePath(p) == Stamp(Held(Path(p)))

\* The stamp of what was parsed comes from the handle.
StampOfTheHandle(p) == Stamp(run[p].saw)

Open(p) ==
    /\ At(p, "open")
    /\ IF place[Path(p)] = 0 THEN Answer(p, Nothing(p, TRUE))
       ELSE run' = [run EXCEPT ![p] = [@ EXCEPT !.pc = "parse", !.ino = place[Path(p)],
                                                !.saw = Held(Path(p)), !.stood = {Held(Path(p))}]]
    /\ UNCHANGED <<place, file, entry, exe, clock>>

\* An incomplete file does not parse; neither does one written meanwhile, or
\* what was written is read.  The entry is renamed into place in one step.
Parse(p) ==
    LET f == file[run[p].ino]
    IN  /\ At(p, "parse")
        /\ \/ /\ f.whole
              /\ entry' = [entry EXCEPT ![Path(p)] =
                     [exe |-> ExeStamp(p), build |-> run[p].build,
                      stamp |-> StampOfTheHandle(p), content |-> f.content]]
              /\ Answer(p, Read(p, f.content, run[p].build, {f}))
           \/ /\ ~f.whole \/ Stamp(f) # Stamp(run[p].saw)
              /\ UNCHANGED entry
              /\ Answer(p, Nothing(p, FALSE))
        /\ UNCHANGED <<place, file, exe, clock>>

-----------------------------------------------------------------------------
(* which copy a check reads *)

\* Mutant: one newer database makes the copy the fresher one.
AnyIsNewer(repos) ==
    /\ \A r \in repos : place[<<"user", r>>] # 0
    /\ \E r \in repos : Held(<<"user", r>>).at > Held(<<"system", r>>).at

\* Every repository there, none older, one newer (or new).
UserCopyIsFresher(repos) ==
    /\ \A r \in repos : /\ place[<<"user", r>>] # 0
                        /\ Held(<<"user", r>>).at >= Held(<<"system", r>>).at
    /\ \E r \in repos : Held(<<"user", r>>).at > Held(<<"system", r>>).at

PreferFresherCopy(p) ==
    /\ At(p, "prefer")
    /\ run' = [run EXCEPT ![p] =
           IF UserCopyIsFresher(Repos)
           THEN [@ EXCEPT !.dir = "user", !.pc = "look", !.got = None] ELSE None]
    /\ UNCHANGED <<place, file, entry, exe, clock>>

-----------------------------------------------------------------------------
(* what happens beside it *)

\* A download, by root or by a check of the user's, is renamed into place.
Arrive(d) ==
    /\ clock < MaxClock
    /\ clock' = clock + 1
    /\ place' = [place EXCEPT ![d] = clock + 1]
    /\ file' = [file EXCEPT ![clock + 1] =
           [content |-> clock + 1, at |-> clock + 1, whole |-> TRUE, sound |-> TRUE]]
    /\ UNCHANGED <<entry, exe, run>>

\* Verification fails, and the database is taken away: whoever reads the
\* repository now is not promised anything of it.
Refuse(d) ==
    /\ place[d] # 0
    /\ place' = [place EXCEPT ![d] = 0]
    /\ run' = [p \in Procs |-> IF p \in Seeders \/ run[p] = None THEN run[p]
                               ELSE [run[p] EXCEPT !.base[d[2]] = 0]]
    /\ UNCHANGED <<file, entry, exe, clock>>

\* rvn is upgraded under the processes that run it.
Upgrade == /\ exe < MaxBuild
           /\ exe' = exe + 1
           /\ UNCHANGED <<place, file, entry, run, clock>>

\* Nothing syncs an entry to the disk: a cut may leave one short (or several,
\* as so many cuts), and to its reader it is then as one that is not there.
PowerCut(d) ==
    /\ entry[d] # None
    /\ entry' = [entry EXCEPT ![d] = None]
    /\ run' = [p \in Procs |-> None]
    /\ UNCHANGED <<place, file, exe, clock>>

Next == \/ \E p \in Procs :
              \/ Start(p) \/ StartPrefix(p) \/ End(p)
              \/ SeedCheck(p) \/ SeedOpen(p) \/ SeedFails(p) \/ SeedDone(p)
              \/ Look(p) \/ Load(p) \/ Open(p) \/ Parse(p) \/ PreferFresherCopy(p)
        \/ \E d \in Paths : Arrive(d) \/ Refuse(d) \/ PowerCut(d)
        \/ Upgrade

Spec == Init /\ [][Next]_vars

-----------------------------------------------------------------------------
(* properties *)

Answered == {p \in Readers : run[p] # None /\ run[p].got # None}

\* What a command reads of a repository is what the file held that had its
\* name, when it looked or, if a seed was written over it, by the time it had
\* its answer, parsed by its own build: an entry never outlives its database
\* or its encoding, whatever is synced, upgraded, killed or cut. (A build that
\* was replaced has no stamp: two of those may read each other's entries.)
ReadsWhatStood ==
    \A p \in Answered :
        LET g == run[p].got
        IN  /\ \E f \in g.stood : g.content = f.content
            /\ g.build = run[p].build \/ (g.build < exe /\ run[p].build < exe)

\* A check reads every repository there is, and none older than the system's
\* copy was when the check began: whichever copy it reads, whatever arrives.
\* (Not promised of a seed that a sync crossed, or that was cut short.)
NeverOlder ==
    \A p \in Answered :
        LET g == run[p].got
        IN  (\A f \in g.stood : f.sound) => g.content >= run[p].base[g.repo]
=============================================================================
