------------------------------- MODULE Review -------------------------------
(***************************************************************************)
(* `rvn config` and the local database it corrects (ops/config.rs,          *)
(* db/local.rs, db/desc.rs): one package, the .pacnew files its upgrades    *)
(* left, a review at work on them, and a transaction beside it: no lock     *)
(* keeps the two apart.  A record is a directory per        *)
(* version with a desc and a file list, written one file at a time.         *)
(*                                                                         *)
(* The contents of a file are a value that also stands for its checksum.    *)
(* A desc is what it holds of the BACKUP section: a checksum per file.      *)
(***************************************************************************)
EXTENDS Naturals, Sequences, SequencesExt

CONSTANTS
  Files,        \* the package's configuration files, relative to the root
  Accounts,     \* those ACCOUNT_STATE lists
  Versions,     \* versions of the package
  Moves,        \* the pairs of versions a transaction may go between
  Ships,        \* the bytes each version ships
  AdminBytes,   \* the bytes a person or an editor writes
  None,         \* no file, no directory, no checksum, no package
  Torn,         \* a write that stopped half-way
  Whole,        \* a file list written to its end
  InitialLive,  \* what is on disk before the package is: an image's own files
  Editable,     \* the files a person edits
  MaxSaves,     \* bound on the .pacorig copies of a file (1000 in the code)
  MaxEdits,     \* bound on what a person writes
  MaxMishaps    \* bound on failed writes and deaths

Contents == AdminBytes \cup {Ships[v][f] : v \in Versions, f \in Files}
Backup   == [Files -> Contents \cup {None}]

ASSUME ReviewAssumption ==
  /\ Accounts \subseteq Files
  /\ \A v \in Versions, f \in Files : Ships[v][f] \notin AdminBytes
  /\ None \notin Contents /\ Torn \notin Contents /\ None # Torn
  /\ None \notin Backup /\ Torn \notin Backup /\ None \notin Versions
  /\ <<None, None>> \notin Moves          \* what is not installed is not removed
  /\ InitialLive \in [Files -> Contents \cup {None}] /\ Editable \subseteq Files
  /\ MaxSaves \in Nat /\ MaxEdits \in Nat /\ MaxMishaps \in Nat

VARIABLES
  live, pacnew,    \* each file, and the .pacnew beside it
  saved,           \* its .pacorig, .pacorig.1 and so on
  dirs,            \* versions whose directory exists
  desc, list,      \* the two files of each directory
  tx,              \* the transaction: its step, what it installs, what it loaded
  desk,            \* the review: its step and what it has in memory
  edits, mishaps,
  owed, agreed,    \* read by properties only: see OriginalsKept, SettledOnRecord
  sound            \* and the version the last transaction finished with

files   == <<live, pacnew, saved>>
records == <<dirs, desc, list>>
ghosts  == <<owed, agreed, sound>>
bounds  == <<edits, mishaps>>
vars    == <<files, records, tx, desk, bounds, ghosts>>

Unknown == [f \in Files |-> None]
NoTx    == [step |-> "idle", to |-> None, was |-> None, hash |-> Unknown,
            kept |-> {}]
Away    == [step |-> "away", verb |-> "keep", todo |-> {}, file |-> None,
            ver |-> None, hash |-> Unknown]
Verbs   == {"accept", "keep", "merge"}

Init ==
  /\ live = InitialLive
  /\ pacnew = [f \in Files |-> None]
  /\ saved = [f \in Files |-> <<>>]
  /\ dirs = {}
  /\ desc = [v \in Versions |-> None]
  /\ list = [v \in Versions |-> None]
  /\ tx = NoTx
  /\ desk = Away
  /\ edits = 0 /\ mishaps = 0
  /\ owed = {} /\ agreed = Unknown /\ sound = None

Mishap == mishaps < MaxMishaps /\ mishaps' = mishaps + 1 /\ UNCHANGED edits

\* A torn desc has no NAME: the loader steps over it, as over a missing one.
Readable(v) == v \in dirs /\ desc[v] \in Backup

\* What a process finds installed.  Two directories of one package are one map
\* entry: whichever read_dir lists last.
Loads(v, h) ==
  \/ v \in Versions /\ Readable(v) /\ h = desc[v]
  \/ v = None /\ (\A w \in Versions : ~Readable(w)) /\ h = Unknown

-----------------------------------------------------------------------------
(* A transaction on the package, as InstallTx has it, with its record in     *)
(* steps.                                                                    *)

Begin(to) ==
  /\ tx.step = "idle"
  /\ \E was \in Versions \cup {None}, h \in Backup :
       /\ Loads(was, h)
       /\ <<was, to>> \in Moves
       /\ tx' = [step |-> "files", to |-> to, was |-> was, hash |-> h, kept |-> {}]
  /\ sound' = None
  /\ UNCHANGED <<files, records, desk, bounds, owed, agreed>>

Spared(f) == live[f] # None /\ (f \in Accounts \/ live[f] # tx.hash[f])

\* Unpacking, or for an uninstall the retirement of what the record lists.
PlaceFiles ==
  LET ship == Ships[tx.to]
      aside == {f \in Files : Spared(f) /\ live[f] # ship[f]}
  IN
  /\ tx.step = "files"
  /\ IF tx.to = None
     THEN /\ live' = [f \in Files |-> IF list[tx.was] = Whole THEN None ELSE live[f]]
          /\ UNCHANGED pacnew
     ELSE /\ live' = [f \in Files |-> IF Spared(f) THEN live[f] ELSE ship[f]]
          /\ pacnew' = [f \in Files |-> IF ~Spared(f) THEN pacnew[f]
                                        ELSE IF f \in aside THEN ship[f] ELSE None]
  /\ tx' = [step |-> IF tx.was \in {None, tx.to} THEN "desc" ELSE "drop",
            to |-> tx.to, was |-> tx.was, hash |-> tx.hash,
            kept |-> IF tx.to = None THEN {} ELSE aside]
  /\ UNCHANGED <<saved, records, desk, bounds, ghosts>>

\* remove_dir_all: the entries in either order, then the directory, which has
\* to be empty by then.
DropDesc ==
  /\ tx.step = "drop" /\ desc[tx.was] # None
  /\ desc' = [desc EXCEPT ![tx.was] = None]
  /\ agreed' = Unknown
  /\ tx' = [tx EXCEPT !.step = IF list[tx.was] = None THEN "rmdir" ELSE "drop"]
  /\ UNCHANGED <<files, dirs, list, desk, bounds, owed, sound>>

DropList ==
  /\ tx.step = "drop" /\ list[tx.was] # None
  /\ list' = [list EXCEPT ![tx.was] = None]
  /\ tx' = [tx EXCEPT !.step = IF desc[tx.was] = None THEN "rmdir" ELSE "drop"]
  /\ UNCHANGED <<files, dirs, desc, desk, bounds, ghosts>>

DropDir ==
  /\ tx.step = "rmdir"
  /\ desc[tx.was] = None
  /\ dirs' = dirs \ {tx.was}
  /\ tx' = IF tx.to = None THEN NoTx ELSE [tx EXCEPT !.step = "desc"]
  /\ UNCHANGED <<files, desc, list, desk, bounds, ghosts>>

\* The directory is not empty, because a review renamed a desc into it.
DropDirFails ==
  /\ tx.step = "rmdir"
  /\ desc[tx.was] # None
  /\ tx' = NoTx
  /\ UNCHANGED <<files, records, desk, bounds, ghosts>>

\* The checksum of a spared file is that of the package's copy beside it, and
\* none when a review has taken that copy away meanwhile.
Shipped(f) == IF f \in tx.kept THEN pacnew[f] ELSE live[f]

WriteDesc ==
  /\ tx.step = "desc"
  /\ dirs' = dirs \cup {tx.to}
  /\ desc' = [desc EXCEPT ![tx.to] = [f \in Files |-> Shipped(f)]]
  /\ agreed' = Unknown
  /\ tx' = [tx EXCEPT !.step = "list"]
  /\ UNCHANGED <<files, list, desk, bounds, owed, sound>>

WriteList ==
  /\ tx.step = "list"
  /\ list' = [list EXCEPT ![tx.to] = Whole]
  /\ sound' = tx.to
  /\ tx' = NoTx
  /\ UNCHANGED <<files, dirs, desc, desk, bounds, owed, agreed>>

\* The process dies, or a write fails half-way and the transaction ends.
TxStops ==
  /\ tx.step # "idle"
  /\ Mishap
  /\ tx' = NoTx
  /\ \/ UNCHANGED <<records, agreed>>
     \/ /\ tx.step = "desc"
        /\ dirs' = dirs \cup {tx.to}
        /\ desc' = [desc EXCEPT ![tx.to] = Torn]
        /\ agreed' = Unknown
        /\ UNCHANGED list
     \/ /\ tx.step = "list"
        /\ list' = [list EXCEPT ![tx.to] = Torn]
        /\ UNCHANGED <<dirs, desc, agreed>>
  /\ UNCHANGED <<files, desk, owed, sound>>

-----------------------------------------------------------------------------
(* A review: `rvn config keep`, `accept` or `merge` over the waiting files.   *)

Waiting == {f \in Files : pacnew[f] # None}

Open(verb) ==
  /\ desk = Away
  /\ Waiting # {}
  /\ \E v \in Versions \cup {None}, h \in Backup :
       /\ Loads(v, h)
       /\ desk' = [step |-> "walk", verb |-> verb, todo |-> Waiting, file |-> None,
                   ver |-> v, hash |-> h]
  /\ UNCHANGED <<files, records, tx, bounds, ghosts>>

\* The files left were not named, were answered with no, or were refused.
Close ==
  /\ desk.step = "walk"
  /\ desk' = Away
  /\ UNCHANGED <<files, records, tx, bounds, ghosts>>

Turn(f) == desk.step = "walk" /\ f \in desk.todo
Go(s, todo, file, hash) ==
  desk' = [step |-> s, verb |-> desk.verb, todo |-> todo, file |-> file, ver |-> desk.ver,
           hash |-> hash]
Step(s) == Go(s, desk.todo, IF s = "walk" THEN None ELSE desk.file, desk.hash)

\* ACCOUNT_STATE: a package's copy cannot know what these hold.
Acceptable(f) == f \notin Accounts

\* A merge saves and edits first; the
\* other two correct the record first.
Agree(f) ==
  /\ Turn(f)
  /\ desk.verb = "accept" => Acceptable(f)
  /\ Go(IF desk.verb = "merge" THEN "save" ELSE "record", desk.todo \ {f}, f, desk.hash)
  /\ UNCHANGED <<files, records, tx, bounds, ghosts>>

\* Mutant: nothing is saved before an accept.
Unsaved == IF desk.verb = "accept" THEN "swap" ELSE "discard"
AfterRecord == IF desk.verb = "accept" THEN "save" ELSE "discard"

\* Mutant: the entries of the other files are not written back.
NotedAlone(h, f, b) == [Unknown EXCEPT ![f] = b]
Noted(h, f, b) == [h EXCEPT ![f] = b]

\* record_shipped_hash and set_backup_hash up to the read of the record: no
\* owner, no .pacnew, nothing to correct, no record there any more, or no
\* BACKUP section in it, and the review goes on without.
ReadRecord ==
  LET f == desk.file
      moot == desk.ver = None \/ pacnew[f] = None \/ desk.hash[f] = pacnew[f]
  IN
  /\ desk.step = "record"
  /\ IF moot
     THEN Step(AfterRecord) /\ UNCHANGED agreed
     ELSE /\ Go(IF Readable(desk.ver) THEN "rename" ELSE AfterRecord, desk.todo, f,
                Noted(desk.hash, f, pacnew[f]))
          /\ agreed' = [agreed EXCEPT ![f] = None]
  /\ UNCHANGED <<files, records, tx, bounds, owed, sound>>

\* The staged copy is renamed over the record, if its directory is still there.
RenameRecord ==
  /\ desk.step = "rename"
  /\ IF desk.ver \in dirs
     THEN /\ desc' = [desc EXCEPT ![desk.ver] = desk.hash]
          /\ agreed' = [agreed EXCEPT ![desk.file] = desk.hash[desk.file]]
     ELSE UNCHANGED <<desc, agreed>>
  /\ Step(AfterRecord)
  /\ UNCHANGED <<files, dirs, list, tx, bounds, owed, sound>>

\* Mutant: the record is written in place.
StagingTorn ==
  /\ desk.step = "rename"
  /\ Mishap
  /\ desc' = [desc EXCEPT ![desk.ver] = IF desk.ver \in dirs THEN Torn ELSE @]
  /\ Step(AfterRecord)
  /\ UNCHANGED <<files, dirs, list, tx, ghosts>>

\* The staged copy cannot be written, half of it at most: a warning.
StagingFails ==
  /\ desk.step = "rename"
  /\ Mishap
  /\ Step(AfterRecord)
  /\ UNCHANGED <<files, records, tx, ghosts>>

AfterSave == IF desk.verb = "accept" THEN "swap" ELSE "edit"

\* The first free name of .pacorig, .pacorig.1, ...
SaveBeside(f, b) == Append(saved[f], b)

SaveOriginal ==
  LET f == desk.file
  IN
  /\ desk.step = "save"
  /\ CASE live[f] = None -> Step(AfterSave) /\ UNCHANGED saved
       [] live[f] # None /\ Len(saved[f]) < MaxSaves ->
            /\ saved' = [saved EXCEPT ![f] = SaveBeside(f, live[f])]
            /\ Step(AfterSave)
       [] OTHER -> desk' = Away /\ UNCHANGED saved
  /\ UNCHANGED <<live, pacnew, records, tx, bounds, ghosts>>

SaveFails ==
  LET f == desk.file
  IN
  /\ desk.step = "save"
  /\ live[f] # None /\ Len(saved[f]) < MaxSaves
  /\ Mishap
  /\ saved' = [saved EXCEPT ![f] = SaveBeside(f, Torn)]
  /\ desk' = Away
  /\ UNCHANGED <<live, pacnew, records, tx, ghosts>>

\* What a review writes over, when a person wrote it.
Owing(f) == owed \cup ({f} \X ({live[f]} \cap AdminBytes))

\* One rename, or an error when a transaction took the .pacnew away meanwhile.
Swap ==
  LET f == desk.file
  IN
  /\ desk.step = "swap"
  /\ IF pacnew[f] = None
     THEN desk' = Away /\ UNCHANGED <<live, pacnew, owed>>
     ELSE /\ live' = [live EXCEPT ![f] = pacnew[f]]
          /\ pacnew' = [pacnew EXCEPT ![f] = None]
          /\ owed' = Owing(f)
          /\ Step("walk")
  /\ UNCHANGED <<saved, records, tx, bounds, agreed, sound>>

\* No transaction is between unpacking the file and reading its checksum back.
Unread == tx.step \in {"idle", "files"}

\* The editor has both files open; afterwards the person says whether the
\* merge is finished.
Edit(f, b, n, finished) ==
  /\ b # live[f] \/ n # pacnew[f] => edits < MaxEdits /\ f \in Editable /\ Unread
  /\ edits' = IF b = live[f] /\ n = pacnew[f] THEN edits ELSE edits + 1
  /\ live' = [live EXCEPT ![f] = b]
  /\ pacnew' = [pacnew EXCEPT ![f] = n]
  /\ owed' = IF b = live[f] THEN owed ELSE Owing(f)
  /\ Step(IF finished THEN "record" ELSE "walk")
  /\ UNCHANGED <<saved, records, tx, mishaps, agreed, sound>>

Merge ==
  /\ desk.step = "edit"
  /\ \E b \in AdminBytes \cup {live[desk.file]}, n \in AdminBytes \cup {pacnew[desk.file]},
        finished \in BOOLEAN : Edit(desk.file, b, n, finished)

Discard ==
  LET f == desk.file
  IN
  /\ desk.step = "discard"
  /\ pacnew' = [pacnew EXCEPT ![f] = None]
  /\ IF pacnew[f] = None THEN desk' = Away ELSE Step("walk")
  /\ UNCHANGED <<live, saved, records, tx, bounds, ghosts>>

DeskDies ==
  /\ desk # Away
  /\ Mishap
  /\ desk' = Away
  /\ UNCHANGED <<files, records, tx, ghosts>>

\* A person edits the file by other means; not between the copy and what then
\* writes over it (the rename of an accept, the editor of a merge), nor between
\* unpacking and the checksum on record.
AdminEdits(f, b) ==
  /\ edits < MaxEdits
  /\ live[f] # None /\ b # live[f]
  /\ ~(desk.step \in {"swap", "edit"} /\ desk.file = f)
  /\ Unread
  /\ edits' = edits + 1
  /\ live' = [live EXCEPT ![f] = b]
  /\ UNCHANGED <<pacnew, saved, records, tx, desk, mishaps, ghosts>>

Transaction ==
  \/ \E to \in Versions \cup {None} : Begin(to)
  \/ PlaceFiles \/ DropDesc \/ DropList \/ DropDir \/ DropDirFails
  \/ WriteDesc \/ WriteList \/ TxStops

Desk ==
  \/ \E verb \in Verbs : Open(verb)
  \/ \E f \in desk.todo : Agree(f)
  \/ ReadRecord \/ RenameRecord \/ StagingFails
  \/ SaveOriginal \/ SaveFails \/ Swap \/ Merge \/ Discard
  \/ Close \/ DeskDies

Next == Transaction \/ Desk \/ \E f \in Editable, b \in AdminBytes : AdminEdits(f, b)

Spec == Init /\ [][Next]_vars

-----------------------------------------------------------------------------
(* Properties.                                                               *)

\* Nothing a person wrote is destroyed by a review: whatever accept or an
\* editor started by merge wrote over is whole in a .pacorig copy, through
\* deaths, failed copies, later reviews and transactions in between.
OriginalsKept == \A o \in owed : \E i \in DOMAIN saved[o[1]] : saved[o[1]][i] = o[2]

\* Once a transaction has finished, its record is there to be read, desc and
\* file list, until the next one begins: no crashed or failed predecessor, and
\* no review rewriting the record, can leave it unreadable.
Recorded == sound # None => Readable(sound) /\ list[sound] = Whole

\* The checksum a review put on record for a file stays, while the review goes
\* on to the others, until a transaction rewrites the record.
SettledOnRecord ==
  \A f \in Files : agreed[f] # None =>
    \E v \in Versions : Readable(v) /\ desc[v][f] = agreed[f]

=============================================================================
