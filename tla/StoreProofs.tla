---- MODULE StoreProofs ----
(***************************************************************************)
(* Proofs about what rvn keeps between commands, for any versions,         *)
(* signature levels, --keep values, commands, cleans and kills.            *)
(***************************************************************************)
EXTENDS Store, FiniteSetTheorems, TLAPS

FromRepo == {"sync", "seal", "fetch", "fetching", "check", "commit"}
FromAur  == {"pull", "build", "collect"}
Pcs      == FromRepo \cup FromAur \cup {"idle", "finish", "agree"}
SomeVer  == 0 .. MaxVer

Databases ==
  [ver : SomeVer, seal : {"none", "unchecked", "signed", "unsigned"}, level : Levels]
Installs == [ver : SomeVer, good : BOOLEAN,
             by : {"none", "install", "build", "rollback", "unlisted"}]
Transactions ==
  [pc : Pcs, kind : {"none", "sync", "install", "aur", "rollback"}, ver : SomeVer,
   got : SUBSET Archives, keep : BOOLEAN]
Sweeps ==
  [pc : {"idle", "agree", "rescue", "retire", "parts", "trees"}, keep : Nat,
   rescue : SUBSET Archives, retired : SUBSET Archives, kept : SUBSET Archives,
   parts : SUBSET Vers, trees : BOOLEAN, stranded : BOOLEAN]

WorldOK == origin \in {"repo", "aur"} /\ offered \in Vers /\ level \in Levels
DiskOK ==
  /\ db \in Databases /\ (db = NoDb \/ db.ver \in Vers)
  /\ stale \in BOOLEAN /\ nosig \in BOOLEAN
  /\ files \subseteq Archives /\ sigs \subseteq Vers /\ parts \subseteq Vers /\ tree \in BOOLEAN
CountsOK == commands \in Nat /\ sweeps \in Nat /\ crashes \in Nat
TypeOK ==
  /\ WorldOK /\ DiskOK /\ CountsOK
  /\ installed \in Installs /\ tx \in Transactions /\ sweep \in Sweeps
  /\ torn \in BOOLEAN /\ quiet \in BOOLEAN

\* A step has the version it works on, and works on what its package comes from.
StepInv ==
  /\ tx.pc \in FromRepo => origin = "repo"
  /\ tx.pc \in FromAur => origin = "aur"
  /\ tx.pc \in {"seal", "fetch"} => db.ver \in Vers
  /\ tx.pc \in {"fetching", "check", "build"} => tx.ver \in Vers

\* What was built is whole; what was fetched is in the cache proper, and what
\* is about to be installed has its checksum.
GoodInv ==
  /\ origin = "aur" => \A f \in files \cup tx.got \cup sweep.rescue : f.good
  /\ origin = "repo" => \A f \in files \cup tx.got : f.at = "root"
  /\ tx.pc = "commit" => \A f \in tx.got : f.good
  /\ installed.by = "install" => origin = "repo"
  /\ InstalledIsGenuine

SealInv == DatabaseSealed

\* One archive per path.
OnePerVersion(S) == \A f, g \in S : f.ver = g.ver => f = g
PathInv ==
  /\ \A f, g \in files : SamePath(f, g) => f = g
  /\ OnePerVersion(tx.got) /\ OnePerVersion(sweep.rescue)
  /\ sweep.pc # "idle" => \A f \in sweep.kept, g \in sweep.retired : ~SamePath(f, g)

\* Nothing on disk is newer than the last sync or what the mirrors carry.
AgeInv ==
  origin = "repo" =>
    /\ db.ver <= offered
    /\ \A f \in files : f.ver <= offered /\ (db # NoDb => f.ver <= db.ver)
    /\ tx.pc \in {"fetching", "check"} => tx.ver = db.ver
    /\ tx.pc = "commit" => \A f \in tx.got : f.ver = db.ver
    /\ tx.pc \in {"fetch", "fetching", "check", "commit"} => db # NoDb

\* What a clean that keeps anything is about to retire is older than what an
\* install can bring in beside it.
LaterInv ==
  origin = "repo" /\ sweep.pc # "idle" /\ sweep.keep > 0 =>
    \A r \in sweep.retired :
      /\ r.ver < offered /\ (db # NoDb => r.ver < db.ver)
      /\ installed.by = "install" => r.ver # installed.ver

\* What an undisturbed clean finds is what it planned with.
QuietInv ==
  quiet /\ sweep.pc # "idle" =>
    /\ \A r \in sweep.retired : r.ver # installed.ver
    /\ sweep.pc \in {"agree", "rescue"} =>
         /\ files = sweep.kept \cup sweep.retired
         /\ sweep.rescue \subseteq sweep.kept
         /\ \A f \in sweep.rescue : f.at = "tree"
         /\ sweep.trees => \A f \in sweep.kept : f.at = "tree" => f \in sweep.rescue
    /\ sweep.pc \in {"retire", "parts", "trees"} =>
         /\ Doomed => \A f \in files : f.at = "tree" => f \in sweep.retired
         /\ \A f \in sweep.kept :
              \/ \E g \in files : g.ver = f.ver /\ (g.at = "root" \/ (g = f /\ ~Doomed))
              \/ \E r \in sweep.retired : SamePath(r, Promoted(f))

Inv == TypeOK /\ StepInv /\ GoodInv /\ SealInv /\ PathInv /\ AgeInv /\ LaterInv /\ QuietInv
-----------------------------------------------------------------------------
(* Types, and what a step works on.                                          *)

LEMMA Facts ==
  /\ MaxVer \in Nat /\ MaxVer >= 1 /\ 0 \in SomeVer /\ Vers \subseteq SomeVer /\ 0 \notin Vers
  /\ 1 \in Vers /\ PkgLevel \in Levels /\ Keeps \subseteq Nat
  BY StoreAssumption DEF SomeVer, Vers

LEMMA NothingUnderWay ==
  /\ NoTx \in Transactions /\ NoTx.pc = "idle" /\ NoTx.got = {}
  /\ NoSweep \in Sweeps /\ NoSweep.pc = "idle" /\ NoSweep.rescue = {}
  BY Facts DEF NoTx, NoSweep, Transactions, Sweeps, Pcs

LEMMA NothingThere ==
  /\ NoDb \in Databases /\ NoDb.ver = 0 /\ NoDb.seal = "none" /\ NoDb.level = "Never"
  /\ NotInstalled \in Installs /\ NotInstalled.by = "none"
  BY Facts DEF NoDb, NotInstalled, Databases, Installs, Levels

LEMMA Start == Init => Inv
<1> SUFFICES ASSUME Init PROVE Inv
  OBVIOUS
<1> USE Facts, NothingUnderWay, NothingThere DEF Init
<1>1. TypeOK
  BY DEF TypeOK, WorldOK, DiskOK, CountsOK
<1>2. StepInv
  BY DEF StepInv, FromRepo, FromAur
<1>3. GoodInv /\ SealInv
  BY DEF GoodInv, SealInv, InstalledIsGenuine, DatabaseSealed
<1>4. PathInv /\ LaterInv /\ QuietInv
  BY DEF PathInv, LaterInv, QuietInv, OnePerVersion
<1>5. AgeInv
  BY DEF AgeInv
<1> QED BY <1>1, <1>2, <1>3, <1>4, <1>5 DEF Inv

\* A transaction that takes two of its fields further.
LEMMA TxVer ==
  ASSUME tx \in Transactions, NEW pc \in Pcs, NEW v \in SomeVer,
         tx' = [tx EXCEPT !.pc = pc, !.ver = v]
  PROVE  tx' \in Transactions /\ tx'.pc = pc /\ tx'.ver = v /\ tx'.got = tx.got
<1> DEFINE t == [tx EXCEPT !.pc = pc]
<1>1. t \in Transactions /\ t.pc = pc /\ t.got = tx.got
  BY DEF Transactions
<1>2. tx' = [t EXCEPT !.ver = v]
  BY Zenon DEF Transactions
<1> HIDE DEF t
<1> QED BY <1>1, <1>2 DEF Transactions

LEMMA TxGot ==
  ASSUME tx \in Transactions, NEW pc \in Pcs, NEW S \in SUBSET Archives,
         tx' = [tx EXCEPT !.pc = pc, !.got = S]
  PROVE  tx' \in Transactions /\ tx'.pc = pc /\ tx'.ver = tx.ver /\ tx'.got = S
<1> DEFINE t == [tx EXCEPT !.pc = pc]
<1>1. t \in Transactions /\ t.pc = pc /\ t.ver = tx.ver
  BY DEF Transactions
<1>2. tx' = [t EXCEPT !.got = S]
  BY Zenon DEF Transactions
<1> HIDE DEF t
<1> QED BY <1>1, <1>2 DEF Transactions

LEMMA TxPc ==
  ASSUME tx \in Transactions, NEW pc \in Pcs, tx' = [tx EXCEPT !.pc = pc]
  PROVE  tx' \in Transactions /\ tx'.pc = pc /\ tx'.ver = tx.ver /\ tx'.got = tx.got
  BY DEF Transactions

\* The archives on disk after a step that puts, removes or moves some.
LEMMA Moving ==
  ASSUME files \subseteq Archives, NEW S \in SUBSET Archives
  PROVE  /\ Without(S) \subseteq files /\ Moved(S) \subseteq Archives
         /\ \A f \in S : Promoted(f) \in Archives /\ Promoted(f).ver = f.ver
                          /\ Promoted(f).at = "root" /\ Promoted(f).good = f.good
<1>1. \A f \in S : Promoted(f) \in Archives /\ Promoted(f).ver = f.ver
                   /\ Promoted(f).at = "root" /\ Promoted(f).good = f.good
  BY DEF Promoted, Archives
<1> QED BY <1>1 DEF Without, Moved

\* What a database may be found to be; under Required no unsigned one will do.
LEMMA Rulings ==
  ASSUME TypeOK, NEW v \in Verdicts
  PROVE  /\ v.seal \in {"signed", "refused", "unsigned"} /\ v.nosig \in BOOLEAN
         /\ level = "Required" => v.seal # "unsigned"
<1>1. CASE Believes(level)
  BY <1>1 DEF Verdicts, Believes, TypeOK, DiskOK
<1>2. CASE ~Believes(level)
  <2>1. PICK answer \in Optional, valid \in BOOLEAN : v = Verdict(answer, valid)
    BY <1>2 DEF Verdicts
  <2>2. CASE answer = "Fetched"
    BY <2>1, <2>2 DEF Verdict
  <2>3. CASE answer # "Fetched" /\ level = "Required"
    BY <2>1, <2>3 DEF Verdict
  <2>4. CASE answer # "Fetched" /\ level # "Required"
    BY <2>1, <2>4 DEF Verdict, TypeOK, DiskOK
  <2> QED BY <2>2, <2>3, <2>4
<1> QED BY <1>1, <1>2

LEMMA TypeOfSync ==
  ASSUME TypeOK, StepInv,
         \/ Sync \/ Refresh \/ VerifyDatabase \/ \E keep \in BOOLEAN : Install(keep) \/ Build(keep)
         \/ Reuse \/ Download
  PROVE  TypeOK' /\ StepInv'
<1> USE Facts, NothingUnderWay, NothingThere DEF TypeOK, WorldOK, CountsOK, world, disk, counts,
        FromRepo, FromAur, StepInv, Idle
<1>1. ASSUME NEW keep \in BOOLEAN, Sync \/ Install(keep) \/ Build(keep) PROVE TypeOK' /\ StepInv'
  <2>1. PICK kind \in {"sync", "install", "aur"}, pc \in {"sync", "fetch", "pull"}, k \in BOOLEAN :
          /\ Begin(kind, pc, k, {})
          /\ pc \in {"sync", "fetch"} => origin = "repo"
          /\ pc = "pull" => origin = "aur"
          /\ pc = "fetch" => db # NoDb
    BY <1>1 DEF Sync, Install, Build, NeedsRefresh
  <2>2. tx' \in Transactions /\ tx'.pc = pc
    BY <2>1 DEF Begin, Transactions, Pcs
  <2> QED BY <2>1, <2>2 DEF Begin, DiskOK
<1>2. CASE Refresh
  <2>1. CASE tx' = NoTx /\ UNCHANGED <<db, stale, torn>>
    BY <1>2, <2>1 DEF Refresh, DiskOK
  <2>2. CASE /\ db' = [ver |-> offered, seal |-> "unchecked", level |-> "Never"]
             /\ stale' = FALSE /\ torn' = FALSE /\ tx' = [tx EXCEPT !.pc = "seal"]
    <3>1. tx' \in Transactions /\ tx'.pc = "seal"
      BY <2>2, TxPc DEF Pcs
    <3>2. db' \in Databases /\ db'.ver \in Vers
      BY <2>2 DEF Databases, Levels
    <3> QED BY <1>2, <2>2, <3>1, <3>2 DEF Refresh, DiskOK
  <2> QED BY <1>2, <2>1, <2>2 DEF Refresh
<1>3. CASE VerifyDatabase
  <2>1. PICK v \in Verdicts : Accept(v) \/ Refuse(v)
    BY <1>3 DEF VerifyDatabase
  <2>2. v.seal \in {"signed", "refused", "unsigned"} /\ v.nosig \in BOOLEAN
    BY Rulings
  <2>3. CASE Accept(v)
    <3>1. db' \in Databases /\ db'.ver = db.ver
      <4> DEFINE d == [db EXCEPT !.seal = v.seal]
      <4>1. d \in Databases /\ d.ver = db.ver
        BY <2>2, <2>3 DEF Accept, Databases, DiskOK
      <4>2. db' = [d EXCEPT !.level = level]
        BY <2>3, Zenon DEF Accept, DiskOK, Databases
      <4> HIDE DEF d
      <4> QED BY <4>1, <4>2 DEF Databases
    <3>2. tx' \in Transactions /\ tx'.pc \in {"idle", "fetch"}
      BY <2>3 DEF Accept, AfterRefresh, Transactions, Pcs
    <3> QED BY <1>3, <2>2, <2>3, <3>1, <3>2 DEF VerifyDatabase, Accept, DiskOK
  <2>4. CASE Refuse(v)
    BY <1>3, <2>4 DEF VerifyDatabase, Refuse, DiskOK
  <2> QED BY <2>1, <2>3, <2>4
<1>4. CASE Reuse
  <2>1. tx' \in Transactions /\ tx'.pc = "check" /\ tx'.ver = db.ver
    BY <1>4, TxVer DEF Reuse, Pcs
  <2> QED BY <1>4, <2>1 DEF Reuse, DiskOK
<1>5. CASE Download
  <2>1. tx' \in Transactions /\ tx'.pc = "fetching" /\ tx'.ver = db.ver
    BY <1>5, TxVer DEF Download, Pcs
  <2> QED BY <1>5, <2>1 DEF Download, DiskOK, Disturb
<1> QED BY <1>1, <1>2, <1>3, <1>4, <1>5

LEMMA TypeOfRest ==
  ASSUME TypeOK, StepInv,
         \/ Downloaded \/ VerifyOne \/ Commit \/ Pull \/ Make \/ InstallBuilt \/ Finish
         \/ Rollback \/ InstallFromCache \/ Uninstall
  PROVE  TypeOK' /\ StepInv'
<1> USE Facts, NothingUnderWay, NothingThere DEF TypeOK, WorldOK, DiskOK, CountsOK, world, disk,
        counts, FromRepo, FromAur, StepInv, Idle, Disturb
<1>1. CASE Downloaded
  <2>1. CASE /\ tx.ver \in parts
             /\ \E f \in Sent(tx.ver) : files' = Put(f)
             /\ sigs' \in IF PkgLevel = "Never" THEN {sigs} ELSE {sigs, sigs \cup {tx.ver}}
             /\ tx' = [tx EXCEPT !.pc = "check"]
    <3>1. tx' \in Transactions /\ tx'.pc = "check" /\ tx'.ver = tx.ver
      BY <2>1, TxPc DEF Pcs
    <3>2. files' \subseteq Archives
      BY <2>1 DEF Sent, Put, Without, Archives
    <3> QED BY <1>1, <2>1, <3>1, <3>2 DEF Downloaded
  <2>2. CASE Idle /\ UNCHANGED <<files, sigs>>
    BY <1>1, <2>2 DEF Downloaded
  <2> QED BY <1>1, <2>1, <2>2 DEF Downloaded
<1>2. CASE VerifyOne
  <2>1. ASSUME NEW f \in files, tx' = [tx EXCEPT !.pc = "commit", !.got = {f}]
        PROVE tx' \in Transactions /\ tx'.pc = "commit"
    <3>1. {f} \in SUBSET Archives /\ "commit" \in Pcs
      BY DEF Pcs
    <3> QED BY <2>1, <3>1, TxGot
  <2> QED BY <1>2, <2>1 DEF VerifyOne
<1>3. CASE Commit
  <2>1. installed' \in Installs
    BY <1>3 DEF Commit, Installs, Transactions, Archives
  <2>2. tx' \in Transactions /\ tx'.pc \in {"finish", "idle"}
    BY <1>3, TxPc DEF Commit, Pcs
  <2> QED BY <1>3, <2>1, <2>2 DEF Commit
<1>4. CASE Pull
  <2>1. CASE tx' = [tx EXCEPT !.pc = "build", !.ver = offered]
    <3>1. "build" \in Pcs /\ offered \in SomeVer
      BY DEF Pcs
    <3>2. tx' \in Transactions /\ tx'.pc = "build" /\ tx'.ver = offered
      BY <2>1, <3>1, TxVer
    <3> QED BY <1>4, <3>2 DEF Pull
  <2> QED BY <1>4, <2>1 DEF Pull
<1>5. CASE Make
  <2>1. tx' \in Transactions /\ tx'.pc \in {"collect", "idle"}
    BY <1>5, TxPc DEF Make, Pcs
  <2>2. CASE files' = Put([ver |-> tx.ver, at |-> "tree", good |-> TRUE])
    <3>1. [ver |-> tx.ver, at |-> "tree", good |-> TRUE] \in Archives
      BY <1>5 DEF Make, Archives
    <3>2. files' \subseteq Archives
      BY <2>2, <3>1 DEF Put, Without
    <3> QED BY <1>5, <2>1, <3>2 DEF Make
  <2>3. CASE UNCHANGED files
    BY <1>5, <2>3, <2>1 DEF Make
  <2> QED BY <1>5, <2>2, <2>3 DEF Make
<1>6. CASE InstallBuilt
  <2>1. installed' \in Installs
    <3>1. \A last \in CollectArtifacts : last.ver \in SomeVer
      BY DEF Archives, CollectArtifacts
    <3>2. \A last \in CollectArtifacts :
            [ver |-> last.ver, good |-> TRUE, by |-> "build"] \in Installs
      BY <3>1 DEF Installs
    <3> QED BY <1>6, <3>2 DEF InstallBuilt
  <2>2. tx' \in Transactions /\ tx'.pc \in {"finish", "idle"}
    <3>1. "finish" \in Pcs /\ CollectArtifacts \in SUBSET Archives
      BY DEF Pcs, CollectArtifacts
    <3> QED BY <1>6, <3>1, TxGot DEF InstallBuilt
  <2> QED BY <1>6, <2>1, <2>2 DEF InstallBuilt
<1>7. CASE Finish
  <2>1. files' \subseteq Archives
    <3>1. Produced \in SUBSET Archives
      BY DEF Produced, Transactions
    <3> QED BY <1>7, <3>1, Moving DEF Finish, RetainBuilt, ClearCache
  <2>2. sigs' \subseteq Vers
    BY <1>7 DEF Finish, RetainBuilt, ClearCache
  <2> QED BY <1>7, <2>1, <2>2 DEF Finish
<1>8. CASE Rollback
  <2>1. PICK f \in Targets : Begin("rollback", "agree", FALSE, {f})
    BY <1>8 DEF Rollback
  <2>2. f \in Archives
    BY DEF Targets, Older, Inventory
  <2>3. tx' \in Transactions /\ tx'.pc = "agree"
    BY <2>1, <2>2 DEF Begin, Transactions, Pcs
  <2> QED BY <2>1, <2>3 DEF Begin
<1>9. CASE InstallFromCache
  <2>1. installed' \in Installs
    BY <1>9 DEF InstallFromCache, Installs, Transactions, Archives
  <2> QED BY <1>9, <2>1 DEF InstallFromCache
<1>10. CASE Uninstall
  BY <1>10 DEF Uninstall
<1> QED BY <1>1, <1>2, <1>3, <1>4, <1>5, <1>6, <1>7, <1>8, <1>9, <1>10

LEMMA TypeOfClean ==
  ASSUME TypeOK, StepInv, Clean PROVE TypeOK' /\ StepInv'
<1> USE Facts, NothingUnderWay DEF TypeOK, WorldOK, DiskOK, CountsOK, world, disk, counts, StepInv
<1>1. ASSUME NEW n \in Keeps, NEW builds \in BOOLEAN, PlanSweep(n, builds)
      PROVE  TypeOK' /\ StepInv'
  <2>1. sweep' \in Sweeps
    BY <1>1 DEF PlanSweep, Sweeps, Inventory, Keep, RescueOf, Abandoned
  <2> QED BY <1>1, <2>1 DEF PlanSweep
<1>2. CASE Confirm \/ SweepParts \/ SweepTrees
  <2>1. sweep' \in Sweeps
    BY <1>2 DEF Confirm, SweepParts, SweepTrees, SweepGoes, Sweeps
  <2> QED BY <1>2, <2>1 DEF Confirm, SweepParts, SweepTrees
<1>3. CASE Rescue
  <2>1. PICK moved \in SUBSET {f \in sweep.rescue : OnDisk(f)} :
          /\ files' = Moved(moved)
          /\ sweep' = [sweep EXCEPT !.pc = "retire", !.stranded = moved # sweep.rescue]
    BY <1>3 DEF Rescue
  <2>2. sweep' \in Sweeps
    <3> DEFINE w == [sweep EXCEPT !.pc = "retire"]
               stranded == moved # sweep.rescue
    <3>1. w \in Sweeps
      BY DEF Sweeps
    <3>2. sweep' = [w EXCEPT !.stranded = stranded]
      BY <2>1, Zenon DEF Sweeps
    <3>3. stranded \in BOOLEAN
      OBVIOUS
    <3> HIDE DEF w, stranded
    <3> QED BY <3>1, <3>2, <3>3 DEF Sweeps
  <2>3. files' \subseteq Archives
    <3>1. moved \in SUBSET Archives
      BY DEF Sweeps
    <3> QED BY <2>1, <3>1, Moving
  <2> QED BY <1>3, <2>2, <2>3 DEF Rescue
<1>4. CASE Retire
  <2>1. sweep' \in Sweeps
    BY <1>4 DEF Retire, SweepGoes, Sweeps
  <2> QED BY <1>4, <2>1 DEF Retire, Without
<1> QED BY <1>1, <1>2, <1>3, <1>4 DEF Clean

LEMMA TypeStep == TypeOK /\ StepInv /\ [Next]_vars => TypeOK' /\ StepInv'
<1> SUFFICES ASSUME TypeOK, StepInv, [Next]_vars PROVE TypeOK' /\ StepInv'
  OBVIOUS
<1>1. CASE Publish
  BY <1>1, Facts DEF Publish, TypeOK, StepInv, WorldOK, DiskOK, CountsOK, Vers, disk, counts,
                     FromRepo, FromAur
<1>2. CASE DayPasses \/ Harden
  BY <1>2 DEF DayPasses, Harden, TypeOK, StepInv, WorldOK, DiskOK, CountsOK, Levels, world, disk,
              counts, FromRepo, FromAur
<1>3. CASE Killed
  <2>1. torn' \in BOOLEAN /\ crashes' \in Nat
    <3>1. torn' = torn \/ torn' = (torn \/ tx.pc = "seal")
      BY <1>3, Zenon DEF Killed
    <3>2. torn' \in BOOLEAN
      BY <3>1, Zenon DEF TypeOK
    <3> QED BY <1>3, <3>2 DEF Killed, TypeOK, CountsOK
  <2>2. /\ tx' \in Transactions /\ sweep' \in Sweeps
        /\ tx' = tx \/ tx'.pc = "idle"
    BY <1>3, NothingUnderWay DEF Killed, Idle, TypeOK
  <2> QED BY <1>3, <2>1, <2>2 DEF Killed, TypeOK, StepInv, WorldOK, DiskOK, CountsOK, world, disk,
              FromRepo, FromAur
<1>4. CASE UNCHANGED vars
  BY <1>4 DEF vars, world, disk, counts, TypeOK, StepInv, WorldOK, DiskOK, CountsOK
<1> QED BY <1>1, <1>2, <1>3, <1>4, TypeOfSync, TypeOfRest, TypeOfClean DEF Next, Transaction

\* Whatever commands, cleans and kills follow each other, the database, the
\* cache, the installed package and what is under way stay what the code can
\* read again (db/sync.rs, ops/cache.rs).
THEOREM TypeCorrect == Spec => []TypeOK
<1>1. Init => TypeOK /\ StepInv
  BY Start DEF Inv
<1> QED BY <1>1, TypeStep, PTL DEF Spec

-----------------------------------------------------------------------------
(* The verdict on the database.                                              *)

\* A step of anything but a refresh: the database is as it was, and no
\* transaction leaves the verdict it owes behind.
LEMMA SealsStand ==
  ASSUME SealInv, UNCHANGED <<db, torn>>, tx.pc = "seal" => tx'.pc = "seal"
  PROVE  SealInv'
  BY DEF SealInv, DatabaseSealed

LEMMA SealStep == TypeOK /\ SealInv /\ [Next]_vars => SealInv'
<1> SUFFICES ASSUME TypeOK, SealInv, [Next]_vars PROVE SealInv'
  OBVIOUS
<1> USE DEF disk, world, counts
<1>1. CASE Refresh
  <2>1. CASE Idle /\ UNCHANGED <<db, stale, torn>>
    BY <1>1, <2>1, SealsStand DEF Refresh
  <2>2. CASE /\ db' = [ver |-> offered, seal |-> "unchecked", level |-> "Never"]
             /\ tx' = [tx EXCEPT !.pc = "seal"]
    BY <2>2 DEF SealInv, DatabaseSealed, TypeOK, Transactions
  <2> QED BY <1>1, <2>1, <2>2 DEF Refresh
<1>2. CASE VerifyDatabase
  <2>1. PICK v \in Verdicts : Accept(v) \/ Refuse(v)
    BY <1>2 DEF VerifyDatabase
  <2>2. CASE Accept(v)
    <3>1. db'.seal = v.seal /\ db'.level = level
      BY <2>2 DEF Accept, TypeOK, DiskOK, Databases
    <3>2. v.seal # "unchecked" /\ (level = "Required" => v.seal = "signed")
      BY <2>2, Rulings DEF Accept
    <3> QED BY <3>1, <3>2 DEF SealInv, DatabaseSealed
  <2>3. CASE Refuse(v)
    BY <2>3, NothingThere DEF Refuse, SealInv, DatabaseSealed
  <2> QED BY <2>1, <2>2, <2>3
<1>3. CASE Killed
  <2>1. CASE /\ torn' = (torn \/ tx.pc = "seal") /\ UNCHANGED db
    <3>1. tx.pc = "seal" \/ torn => torn'
      BY <2>1, Zenon
    <3> QED BY <2>1, <3>1 DEF SealInv, DatabaseSealed
  <2>2. CASE UNCHANGED <<tx, torn, db>>
    BY <2>2, SealsStand
  <2> QED BY <1>3, <2>1, <2>2 DEF Killed
<1>4. CASE \/ Sync \/ \E keep \in BOOLEAN : Install(keep) \/ Build(keep)
           \/ Reuse \/ Download \/ Downloaded \/ VerifyOne \/ Commit
           \/ Pull \/ Make \/ InstallBuilt \/ Finish \/ Rollback \/ InstallFromCache
  BY <1>4, SealsStand DEF Sync, Install, Build, Begin, Reuse, Download, Downloaded, VerifyOne,
       Commit, Pull, Make, InstallBuilt, Finish, Rollback, InstallFromCache
<1>5. CASE Publish \/ DayPasses \/ Harden \/ Uninstall \/ Clean \/ UNCHANGED vars
  <2>1. UNCHANGED <<db, torn, tx>>
    BY <1>5 DEF Publish, DayPasses, Harden, Uninstall, Clean, PlanSweep, Confirm, Rescue, Retire,
         SweepParts, SweepTrees, vars
  <2> QED BY <2>1, SealsStand
<1> QED BY <1>1, <1>2, <1>3, <1>4, <1>5 DEF Next, Transaction

\* A database a command can read has had its verdict, or a kill fell before it;
\* one accepted under Required is signed (db/sync.rs, verify_database).
THEOREM DatabaseIsSealed == Spec => []DatabaseSealed
<1>1. Init => TypeOK /\ StepInv /\ SealInv
  BY Start DEF Inv
<1>2. SealInv => DatabaseSealed
  BY DEF SealInv
<1> QED BY <1>1, <1>2, TypeStep, SealStep, PTL DEF Spec

-----------------------------------------------------------------------------
(* What is installed.                                                        *)

\* What a rollback may reinstall under Required has a genuine signature.
LEMMA SignedIsGood ==
  ASSUME NEW f, Signed(f, "Required") PROVE f.good
  BY DEF Signed, VerifyDetached

\* The archives a step leaves are those there were, some of them moved to the
\* cache proper, or such as the package's origin makes.
LEMMA FilesStayGood ==
  ASSUME TypeOK, GoodInv, UNCHANGED <<origin, installed>>,
         sweep'.rescue \subseteq sweep.rescue \cup files,
         \A f \in files' \cup tx'.got :
           \/ \E g \in files \cup tx.got : f.good = g.good /\ (f.at = g.at \/ f.at = "root")
           \/ origin = "aur" /\ f.good
           \/ origin = "repo" /\ f.at = "root",
         tx'.pc = "commit" => (tx.pc = "commit" /\ UNCHANGED tx) \/ \A f \in tx'.got : f.good
  PROVE  GoodInv'
<1>1. origin = "aur" => \A f \in files' \cup tx'.got \cup sweep'.rescue : f.good
  BY DEF GoodInv
<1>2. origin = "repo" => \A f \in files' \cup tx'.got : f.at = "root"
  BY DEF GoodInv
<1> QED BY <1>1, <1>2 DEF GoodInv, InstalledIsGenuine

\* What is put on disk, moved there, or taken away.
LEMMA Shelved ==
  ASSUME files \subseteq Archives, NEW S \in SUBSET Archives
  PROVE  /\ \A f \in Without(S) : f \in files
         /\ \A f \in Moved(S) : f \in files \/ \E g \in S : f = Promoted(g)
  BY DEF Without, Moved

LEMMA GoodOfTx ==
  ASSUME TypeOK, StepInv, GoodInv, Transaction PROVE GoodInv'
<1> USE NothingUnderWay DEF disk, world, counts, Idle
<1>1. CASE \/ Sync \/ Refresh \/ VerifyDatabase
           \/ \E keep \in BOOLEAN : Install(keep) \/ Build(keep)
           \/ Reuse \/ Download
  <2>1. /\ UNCHANGED <<origin, installed, files, sweep>> /\ tx'.got \in {tx.got, {}}
        /\ tx'.pc # "commit"
    <3>1. CASE Sync \/ \E keep \in BOOLEAN : Install(keep) \/ Build(keep)
      BY <3>1 DEF Sync, Install, Build, Begin
    <3>2. CASE Refresh
      BY <3>2 DEF Refresh, TypeOK, Transactions
    <3>3. CASE VerifyDatabase
      BY <3>3 DEF VerifyDatabase, Accept, Refuse, AfterRefresh, TypeOK, Transactions
    <3>4. CASE Reuse \/ Download
      BY <3>4 DEF Reuse, Download, TypeOK, Transactions
    <3> QED BY <1>1, <3>1, <3>2, <3>3, <3>4
  <2> QED BY <2>1, FilesStayGood
<1>2. CASE Downloaded
  <2>1. CASE /\ \E f \in Sent(tx.ver) : files' = Put(f)
             /\ tx' = [tx EXCEPT !.pc = "check"]
    <3>1. tx'.got = tx.got /\ tx'.pc = "check"
      BY <2>1 DEF TypeOK, Transactions
    <3>2. origin = "repo" /\ \A f \in files' : f \in files \/ f.at = "root"
      BY <1>2, <2>1 DEF Downloaded, Sent, Put, Without, StepInv, FromRepo
    <3> QED BY <1>2, <3>1, <3>2, FilesStayGood DEF Downloaded
  <2>2. CASE Idle /\ UNCHANGED files
    BY <1>2, <2>2, FilesStayGood DEF Downloaded
  <2> QED BY <1>2, <2>1, <2>2 DEF Downloaded
<1>3. CASE VerifyOne
  <2>1. UNCHANGED <<origin, installed, sweep>> /\ files' \subseteq files
    BY <1>3 DEF VerifyOne
  <2>2. \/ tx' = NoTx
        \/ \E f \in files : tx'.pc = "commit" /\ tx'.got = {f} /\ f.good
    BY <1>3 DEF VerifyOne, CheckSha256, TypeOK, Transactions
  <2> QED BY <2>1, <2>2, FilesStayGood
<1>4. CASE Commit
  <2>1. CASE Idle /\ UNCHANGED installed
    BY <1>4, <2>1, FilesStayGood DEF Commit
  <2>2. ASSUME NEW f \in tx.got, tx' = [tx EXCEPT !.pc = "finish"],
               installed' = [ver |-> f.ver, good |-> f.good, by |-> "install"]
        PROVE  GoodInv'
    <3>1. tx'.got = tx.got /\ tx'.pc = "finish" /\ f.good /\ origin = "repo"
      BY <1>4, <2>2 DEF Commit, GoodInv, TypeOK, Transactions, StepInv, FromRepo
    <3> QED BY <1>4, <2>2, <3>1 DEF Commit, GoodInv, InstalledIsGenuine
  <2> QED BY <1>4, <2>1, <2>2 DEF Commit
<1>5. CASE Pull
  <2>1. tx'.got \in {tx.got, {}} /\ tx'.pc \in {"build", "idle"}
    BY <1>5 DEF Pull, TypeOK, Transactions
  <2> QED BY <1>5, <2>1, FilesStayGood DEF Pull
<1>6. CASE Make
  <2>1. tx'.got \in {tx.got, {}} /\ tx'.pc \in {"collect", "idle"}
    BY <1>6 DEF Make, TypeOK, Transactions
  <2>2. \A f \in files' : f \in files \/ f.good
    BY <1>6 DEF Make, Put, Without
  <2>3. origin = "aur"
    BY <1>6 DEF Make, StepInv, FromAur
  <2> QED BY <1>6, <2>1, <2>2, <2>3, FilesStayGood DEF Make
<1>7. CASE InstallBuilt
  <2>1. CASE Idle /\ UNCHANGED installed
    BY <1>7, <2>1, FilesStayGood DEF InstallBuilt
  <2>2. ASSUME NEW last \in CollectArtifacts,
               installed' = [ver |-> last.ver, good |-> TRUE, by |-> "build"],
               tx' = [tx EXCEPT !.pc = "finish", !.got = CollectArtifacts]
        PROVE  GoodInv'
    <3>1. tx'.got \subseteq files /\ tx'.pc = "finish"
      BY <2>2 DEF CollectArtifacts, TypeOK, Transactions
    <3> QED BY <1>7, <2>2, <3>1 DEF InstallBuilt, GoodInv, InstalledIsGenuine
  <2> QED BY <1>7, <2>1, <2>2 DEF InstallBuilt
<1>8. CASE Finish
  <2>1. Produced \subseteq tx.got /\ Produced \in SUBSET Archives
    BY DEF Produced, TypeOK, Transactions
  <2>2. \A f \in files' : f \in files \/ \E g \in tx.got : f.good = g.good /\ f.at = "root"
    BY <1>8, <2>1, Shelved, Moving DEF Finish, RetainBuilt, ClearCache, TypeOK, DiskOK
  <2> QED BY <1>8, <2>2, FilesStayGood DEF Finish
<1>9. CASE Rollback
  <2>1. PICK f \in files : tx'.got = {f} /\ tx'.pc = "agree"
    BY <1>9 DEF Rollback, Begin, Targets, Older, Inventory
  <2> QED BY <1>9, <2>1, FilesStayGood DEF Rollback, Begin
<1>10. CASE InstallFromCache
  <2>1. ASSUME NEW f \in tx.got, Signed(f, CachedLevel),
               installed' = [ver |-> f.ver, good |-> f.good,
                             by |-> IF origin = "repo" /\ ~Listed THEN "unlisted" ELSE "rollback"]
        PROVE  GoodInv'
    <3>1. installed'.by = "rollback" /\ PkgLevel = "Required" => f.good
      <4>1. CASE origin = "aur"
        BY <4>1 DEF GoodInv
      <4>2. CASE origin = "repo" /\ Listed
        BY <2>1, <4>2, SignedIsGood DEF CachedLevel
      <4> QED BY <2>1, <4>1, <4>2 DEF TypeOK, WorldOK
    <3> QED BY <1>10, <2>1, <3>1 DEF InstallFromCache, GoodInv, InstalledIsGenuine
  <2>2. CASE UNCHANGED installed
    BY <1>10, <2>2, FilesStayGood DEF InstallFromCache
  <2> QED BY <1>10, <2>1, <2>2 DEF InstallFromCache
<1>11. CASE Uninstall
  BY <1>11, NothingThere DEF Uninstall, GoodInv, InstalledIsGenuine
<1> QED BY <1>1, <1>2, <1>3, <1>4, <1>5, <1>6, <1>7, <1>8, <1>9, <1>10, <1>11 DEF Transaction

LEMMA GoodStep == TypeOK /\ StepInv /\ GoodInv /\ [Next]_vars => GoodInv'
<1> SUFFICES ASSUME TypeOK, StepInv, GoodInv, [Next]_vars PROVE GoodInv'
  OBVIOUS
<1> USE DEF disk, world, counts
<1>1. CASE Publish \/ DayPasses \/ Harden \/ UNCHANGED vars
  BY <1>1, FilesStayGood DEF Publish, DayPasses, Harden, vars
<1>2. CASE Killed
  <2>1. /\ tx' \in {tx, NoTx} /\ sweep' \in {sweep, NoSweep}
        /\ UNCHANGED <<origin, files, installed>>
    BY <1>2 DEF Killed, Idle
  <2> QED BY <2>1, NothingUnderWay, FilesStayGood
<1>3. ASSUME NEW n \in Keeps, NEW builds \in BOOLEAN, PlanSweep(n, builds) PROVE GoodInv'
  <2>1. UNCHANGED <<tx, files, origin, installed>> /\ sweep'.rescue \subseteq files
    BY <1>3 DEF PlanSweep, RescueOf, Inventory
  <2> QED BY <2>1, FilesStayGood
<1>4. CASE Confirm \/ Retire \/ SweepParts \/ SweepTrees
  <2>1. UNCHANGED <<tx, origin, installed>> /\ files' \subseteq files
    BY <1>4 DEF Confirm, Retire, SweepParts, SweepTrees, Without
  <2>2. sweep'.rescue \in {sweep.rescue, {}}
    BY <1>4, NothingUnderWay DEF Confirm, Retire, SweepParts, SweepTrees, SweepGoes, TypeOK, Sweeps
  <2> QED BY <2>1, <2>2, FilesStayGood
<1>5. CASE Rescue
  <2>1. PICK moved \in SUBSET {f \in sweep.rescue : OnDisk(f)} :
          /\ files' = Moved(moved)
          /\ sweep' = [sweep EXCEPT !.pc = "retire", !.stranded = moved # sweep.rescue]
    BY <1>5 DEF Rescue
  <2>2. sweep'.rescue = sweep.rescue /\ moved \in SUBSET Archives /\ moved \subseteq sweep.rescue
    BY <2>1 DEF TypeOK, Sweeps
  <2>3. \A f \in files' : f \in files \/ \E g \in moved : f.good = g.good /\ f.at = "root"
    BY <2>1, <2>2, Shelved, Moving DEF TypeOK, DiskOK
  <2>4. \A f \in files' : f \in files \/ (f.at = "root" /\ (origin = "aur" => f.good))
    BY <2>2, <2>3 DEF GoodInv
  <2> QED BY <1>5, <2>2, <2>4, FilesStayGood DEF Rescue, TypeOK, WorldOK
<1> QED BY <1>1, <1>2, <1>3, <1>4, <1>5, GoodOfTx DEF Next, Clean

\* No damaged archive of the repository is installed, whatever was fetched,
\* killed, swept and fetched again in between (ops/install.rs, verify_one;
\* ops/rollback.rs under Required).
THEOREM InstalledGenuine == Spec => []InstalledIsGenuine
<1>1. Init => TypeOK /\ StepInv /\ GoodInv
  BY Start DEF Inv
<1>2. GoodInv => InstalledIsGenuine
  BY DEF GoodInv
<1> QED BY <1>1, <1>2, TypeStep, GoodStep, PTL DEF Spec

-----------------------------------------------------------------------------
(* One archive per path.                                                     *)

OnePerPath(S) == \A f, g \in S : SamePath(f, g) => f = g

LEMMA PathsAfter ==
  ASSUME files \subseteq Archives, OnePerPath(files), NEW S \in SUBSET Archives
  PROVE  /\ OnePerPath(Without(S)) /\ \A f : OnePerPath(Put(f))
         /\ OnePerVersion(S) => OnePerPath(Moved(S))
<1>1. OnePerPath(Without(S)) /\ \A f : OnePerPath(Put(f))
  BY DEF OnePerPath, Without, Put, SamePath
<1>2. ASSUME OnePerVersion(S) PROVE OnePerPath(Moved(S))
  <2>1. \A f, g \in S : SamePath(Promoted(f), Promoted(g)) => f = g
    BY <1>2, Moving DEF OnePerVersion, SamePath
  <2>2. \A f \in Moved(S), g \in S : SamePath(f, Promoted(g)) => f = Promoted(g)
    BY <2>1 DEF Moved, Without, SamePath
  <2>3. \A f \in Moved(S) : (f \in files) \/ \E g \in S : f = Promoted(g)
    BY DEF Moved, Without
  <2> QED BY <2>2, <2>3 DEF OnePerPath, SamePath
<1> QED BY <1>1, <1>2

LEMMA PathsStand ==
  ASSUME PathInv, OnePerPath(files'),
         UNCHANGED sweep \/ (sweep'.rescue = {} /\ sweep'.pc = "idle"),
         tx'.got \in {tx.got, {}} \/ OnePerVersion(tx'.got)
  PROVE  PathInv'
<1>1. PathInv => OnePerPath(files)
  BY DEF PathInv, OnePerPath
<1> QED BY <1>1 DEF PathInv, OnePerPath, OnePerVersion, SamePath

LEMMA PathsOfTx == ASSUME TypeOK, PathInv, Transaction PROVE PathInv'
<1> USE NothingUnderWay DEF disk, world, counts, Idle
<1>0. OnePerPath(files) /\ files \subseteq Archives
  BY DEF PathInv, OnePerPath, TypeOK, DiskOK
<1>1. CASE \/ Sync \/ Refresh \/ VerifyDatabase
           \/ \E keep \in BOOLEAN : Install(keep) \/ Build(keep)
           \/ Reuse \/ Download \/ Pull \/ Commit \/ InstallFromCache \/ Uninstall
  <2>1. UNCHANGED <<files, sweep>>
    BY <1>1 DEF Sync, Install, Build, Begin, Refresh, VerifyDatabase, Reuse, Download, Pull, Commit,
                InstallFromCache, Uninstall
  <2>2. tx'.got \in {tx.got, {}}
    <3>1. CASE Sync \/ \E keep \in BOOLEAN : Install(keep) \/ Build(keep)
      BY <3>1 DEF Sync, Install, Build, Begin
    <3>2. CASE Refresh \/ VerifyDatabase
      BY <3>2 DEF Refresh, VerifyDatabase, Accept, Refuse, AfterRefresh, TypeOK, Transactions
    <3>3. CASE Reuse \/ Download \/ Pull \/ Commit \/ InstallFromCache \/ Uninstall
      BY <3>3 DEF Reuse, Download, Pull, Commit, InstallFromCache, Uninstall, TypeOK, Transactions
    <3> QED BY <1>1, <3>1, <3>2, <3>3
  <2> QED BY <1>0, <2>1, <2>2, PathsStand
<1>2. CASE Downloaded
  <2>1. tx'.got \in {tx.got, {}} /\ UNCHANGED sweep
    BY <1>2 DEF Downloaded, TypeOK, Transactions
  <2>2. OnePerPath(files')
    BY <1>0, <1>2, PathsAfter DEF Downloaded
  <2> QED BY <2>1, <2>2, PathsStand
<1>3. CASE VerifyOne
  <2>1. OnePerPath(files') /\ UNCHANGED sweep
    BY <1>0, <1>3 DEF VerifyOne, OnePerPath
  <2>2. tx'.got = {} \/ \E f \in files : tx'.got = {f}
    BY <1>3 DEF VerifyOne, TypeOK, Transactions
  <2>3. OnePerVersion(tx'.got)
    BY <2>2 DEF OnePerVersion
  <2> QED BY <2>1, <2>3, PathsStand
<1>4. CASE Make
  <2>1. tx'.got \in {tx.got, {}} /\ UNCHANGED sweep
    BY <1>4 DEF Make, TypeOK, Transactions
  <2>2. OnePerPath(files')
    BY <1>0, <1>4, PathsAfter DEF Make
  <2> QED BY <2>1, <2>2, PathsStand
<1>5. CASE InstallBuilt
  <2>1. UNCHANGED <<files, sweep>> /\ tx'.got \in {{}, CollectArtifacts}
    BY <1>5 DEF InstallBuilt, TypeOK, Transactions
  <2>2. OnePerVersion(CollectArtifacts)
    BY <1>0 DEF CollectArtifacts, OnePerVersion, OnePerPath, SamePath
  <2>3. OnePerVersion({})
    BY DEF OnePerVersion
  <2> QED BY <1>0, <2>1, <2>2, <2>3, PathsStand
<1>6. CASE Finish
  <2>1. Produced \in SUBSET Archives /\ OnePerVersion(Produced)
    BY DEF Produced, TypeOK, Transactions, PathInv, OnePerVersion
  <2>2. OnePerPath(files')
    BY <1>0, <1>6, <2>1, PathsAfter DEF Finish, RetainBuilt, ClearCache
  <2> QED BY <1>6, <2>2, PathsStand DEF Finish
<1>7. CASE Rollback
  <2>1. PICK f \in files : tx'.got = {f}
    BY <1>7 DEF Rollback, Begin, Targets, Older, Inventory
  <2>2. OnePerVersion(tx'.got)
    BY <2>1 DEF OnePerVersion
  <2> QED BY <1>0, <1>7, <2>2, PathsStand DEF Rollback, Begin
<1> QED BY <1>1, <1>2, <1>3, <1>4, <1>5, <1>6, <1>7 DEF Transaction

LEMMA PathStep == TypeOK /\ PathInv /\ [Next]_vars => PathInv'
<1> SUFFICES ASSUME TypeOK, PathInv, [Next]_vars PROVE PathInv'
  OBVIOUS
<1> USE NothingUnderWay DEF disk, world, counts, Idle
<1>0. OnePerPath(files) /\ files \subseteq Archives
  BY DEF PathInv, OnePerPath, TypeOK, DiskOK
<1>1. CASE Publish \/ DayPasses \/ Harden \/ Killed \/ UNCHANGED vars
  <2>1. UNCHANGED files /\ tx' \in {tx, NoTx} /\ sweep' \in {sweep, NoSweep}
    BY <1>1 DEF Publish, DayPasses, Harden, Killed, vars
  <2> QED BY <1>0, <2>1, PathsStand
<1>2. ASSUME NEW n \in Keeps, NEW builds \in BOOLEAN, PlanSweep(n, builds) PROVE PathInv'
  <2> DEFINE kept == {f \in files : Keep(f, n)}
  <2>1. /\ UNCHANGED <<files, tx>> /\ sweep'.kept = kept /\ sweep'.retired = files \ kept
        /\ sweep'.rescue \in {RescueOf(kept), {}}
    BY <1>2 DEF PlanSweep, Inventory
  <2>2. OnePerVersion(RescueOf(kept)) /\ OnePerVersion({})
    BY <1>0 DEF RescueOf, OnePerVersion, OnePerPath, SamePath
  <2>3. \A f \in kept, g \in files \ kept : ~SamePath(f, g)
    BY <1>0 DEF OnePerPath
  <2> QED BY <2>1, <2>2, <2>3 DEF PathInv, SamePath, OnePerVersion
<1>3. CASE Confirm \/ SweepParts \/ Retire \/ Rescue
  <2>1. /\ UNCHANGED tx /\ sweep.pc # "idle"
        /\ \/ sweep' = NoSweep
           \/ UNCHANGED <<sweep.rescue, sweep.kept, sweep.retired>>
    <3>1. CASE Confirm \/ SweepParts \/ Retire
      BY <3>1 DEF Confirm, SweepParts, Retire, SweepGoes, TypeOK, Sweeps
    <3>2. CASE Rescue
      BY <3>2 DEF Rescue, TypeOK, Sweeps
    <3> QED BY <1>3, <3>1, <3>2
  <2>2. CASE Confirm \/ SweepParts
    <3>1. UNCHANGED files
      BY <2>2 DEF Confirm, SweepParts
    <3> QED BY <2>1, <3>1 DEF PathInv, OnePerVersion, SamePath
  <2>3. CASE Retire
    <3>1. PICK removed \in {{}, sweep.retired} : files' = Without(removed)
      BY <2>3 DEF Retire
    <3>2. removed \in SUBSET Archives
      BY DEF TypeOK, Sweeps
    <3>3. OnePerPath(files')
      BY <1>0, <3>1, <3>2, PathsAfter
    <3> QED BY <2>1, <3>3 DEF PathInv, OnePerPath, OnePerVersion, SamePath
  <2>4. CASE Rescue
    <3>1. PICK moved \in SUBSET {f \in sweep.rescue : OnDisk(f)} : files' = Moved(moved)
      BY <2>4 DEF Rescue
    <3>2. moved \in SUBSET Archives /\ OnePerVersion(moved)
      BY DEF TypeOK, Sweeps, PathInv, OnePerVersion
    <3>3. OnePerPath(files')
      BY <1>0, <3>1, <3>2, PathsAfter
    <3> QED BY <2>1, <3>3 DEF PathInv, OnePerPath, OnePerVersion, SamePath
  <2> QED BY <1>3, <2>2, <2>3, <2>4
<1>4. CASE SweepTrees
  <2>1. sweep' = NoSweep /\ UNCHANGED tx /\ OnePerPath(files')
    BY <1>0, <1>4 DEF SweepTrees, OnePerPath
  <2> QED BY <2>1, PathsStand
<1> QED BY <1>1, <1>2, <1>3, <1>4, PathsOfTx DEF Next, Clean

-----------------------------------------------------------------------------
(* How old things are.                                                       *)

\* What the transaction is about to bring in has the version of the database.
AimsAtDb ==
  /\ tx.pc \in {"fetching", "check"} => tx.ver = db.ver
  /\ tx.pc = "commit" => \A f \in tx.got : f.ver = db.ver
  /\ tx.pc \in {"fetch", "fetching", "check", "commit"} => db # NoDb

LEMMA AgesStand ==
  ASSUME TypeOK, AgeInv, UNCHANGED <<origin, offered, db>>,
         origin = "repo" =>
           \A f \in files' : (\E g \in files : g.ver = f.ver) \/ (db # NoDb /\ f.ver = db.ver),
         origin = "repo" => AimsAtDb'
  PROVE  AgeInv'
<1>1. db.ver \in Int
  BY DEF TypeOK, DiskOK, Databases, SomeVer
<1> QED BY <1>1 DEF AgeInv, AimsAtDb

\* Moving archives brings no version that is not there.
LEMMA NoNewVersion ==
  ASSUME files \subseteq Archives, NEW S \in SUBSET Archives, \A f \in S : OnDisk(f)
  PROVE  \A f \in Moved(S) \cup Without(S) : \E g \in files : g.ver = f.ver
<1>1. \A f \in S : \E g \in files : g.ver = Promoted(f).ver
  BY Moving DEF OnDisk, SamePath
<1> QED BY <1>1, Shelved

LEMMA AgeOfSync ==
  ASSUME TypeOK, StepInv, AgeInv,
         \/ Sync \/ Refresh \/ VerifyDatabase \/ \E keep \in BOOLEAN : Install(keep) \/ Build(keep)
         \/ Reuse \/ Download
  PROVE  AgeInv'
<1> USE NothingUnderWay DEF disk, world, counts, Idle
<1>1. CASE Sync \/ \E keep \in BOOLEAN : Install(keep) \/ Build(keep)
  <2>1. UNCHANGED <<origin, offered, db, files>> /\ AimsAtDb'
    BY <1>1 DEF Sync, Install, Build, Begin, NeedsRefresh, AimsAtDb
  <2> QED BY <2>1, AgesStand
<1>2. CASE Refresh
  <2>1. CASE Idle /\ UNCHANGED <<db, stale, torn>>
    BY <1>2, <2>1, AgesStand DEF Refresh, AimsAtDb
  <2>2. CASE /\ db' = [ver |-> offered, seal |-> "unchecked", level |-> "Never"]
             /\ tx' = [tx EXCEPT !.pc = "seal"]
    <3>1. tx'.pc = "seal" /\ UNCHANGED <<origin, offered, files>> /\ db'.ver = offered
      BY <1>2, <2>2 DEF Refresh, TypeOK, Transactions
    <3> QED BY <3>1, Facts DEF AgeInv, TypeOK, WorldOK, Vers
  <2> QED BY <1>2, <2>1, <2>2 DEF Refresh
<1>3. CASE VerifyDatabase
  <2>1. PICK v \in Verdicts : Accept(v) \/ Refuse(v)
    BY <1>3 DEF VerifyDatabase
  <2>2. db.ver \in Vers /\ db # NoDb /\ UNCHANGED <<origin, offered, files>>
    BY <1>3, Facts, NothingThere DEF VerifyDatabase, StepInv
  <2>3. CASE Accept(v)
    <3>1. db'.ver = db.ver /\ db' # NoDb
      BY <2>2, <2>3, Facts, NothingThere DEF Accept, TypeOK, DiskOK, Databases
    <3>2. tx'.pc \in {"idle", "fetch"}
      BY <2>3 DEF Accept, AfterRefresh, TypeOK, Transactions
    <3> QED BY <2>2, <3>1, <3>2 DEF AgeInv
  <2>4. CASE Refuse(v)
    <3>1. db' = NoDb /\ NoDb.ver = 0 /\ tx'.pc = "idle"
      BY <2>4, NothingThere DEF Refuse
    <3> QED BY <2>2, <3>1, Facts DEF AgeInv, TypeOK, WorldOK, Vers
  <2> QED BY <2>1, <2>3, <2>4
<1>4. CASE Reuse \/ Download
  <2>1. tx'.pc \in {"check", "fetching"} /\ tx'.ver = db.ver /\ tx.pc = "fetch"
    BY <1>4 DEF Reuse, Download, TypeOK, Transactions
  <2>2. UNCHANGED <<origin, offered, db, files>> /\ (origin = "repo" => AimsAtDb')
    BY <1>4, <2>1 DEF Reuse, Download, AgeInv, AimsAtDb
  <2> QED BY <2>2, AgesStand
<1> QED BY <1>1, <1>2, <1>3, <1>4

LEMMA AgeOfRest ==
  ASSUME TypeOK, StepInv, AgeInv,
         \/ Downloaded \/ VerifyOne \/ Commit \/ Pull \/ Make \/ InstallBuilt \/ Finish
         \/ Rollback \/ InstallFromCache \/ Uninstall
  PROVE  AgeInv'
<1> USE NothingUnderWay DEF disk, world, counts, Idle
<1>1. CASE Downloaded
  <2>1. UNCHANGED <<origin, offered, db>> /\ (tx' = NoTx \/ (tx'.pc = "check" /\ tx'.ver = tx.ver))
    BY <1>1 DEF Downloaded, TypeOK, Transactions
  <2>2. \A f \in files' : f \in files \/ f.ver = tx.ver
    BY <1>1 DEF Downloaded, Put, Without, Sent
  <2>3. origin = "repo" => (tx.ver = db.ver /\ db # NoDb)
    BY <1>1 DEF Downloaded, AgeInv
  <2>4. origin = "repo" => AimsAtDb'
    BY <2>1, <2>3 DEF AimsAtDb
  <2> QED BY <2>1, <2>2, <2>3, <2>4, AgesStand
<1>2. CASE VerifyOne
  <2>1. /\ tx' = NoTx \/ (tx'.pc = "commit" /\ \A f \in tx'.got : f.ver = tx.ver)
        /\ UNCHANGED <<origin, offered, db>> /\ files' \subseteq files /\ tx.pc = "check"
    <3>1. \A f : SamePath(f, [Wanted EXCEPT !.ver = tx.ver]) => f.ver = tx.ver
      BY DEF SamePath, Wanted
    <3>2. ASSUME NEW f \in files, SamePath(f, [Wanted EXCEPT !.ver = tx.ver]),
                 tx' = [tx EXCEPT !.pc = "commit", !.got = {f}]
          PROVE  tx'.pc = "commit" /\ \A g \in tx'.got : g.ver = tx.ver
      BY <3>1, <3>2 DEF TypeOK, Transactions
    <3> QED BY <1>2, <3>2 DEF VerifyOne
  <2>2. origin = "repo" => AimsAtDb'
    BY <2>1 DEF AgeInv, AimsAtDb
  <2> QED BY <2>1, <2>2, AgesStand
<1>3. CASE Commit \/ Pull \/ InstallBuilt \/ Rollback \/ InstallFromCache \/ Uninstall
  <2>1. tx'.pc \in {"finish", "idle", "build", "agree"}
    <3>1. CASE Commit \/ Pull \/ InstallBuilt
      BY <3>1 DEF Commit, Pull, InstallBuilt, TypeOK, Transactions
    <3>2. CASE Rollback \/ InstallFromCache \/ Uninstall
      BY <3>2 DEF Rollback, Begin, InstallFromCache, Uninstall
    <3> QED BY <1>3, <3>1, <3>2
  <2>2. UNCHANGED <<origin, offered, db, files>> /\ AimsAtDb'
    BY <1>3, <2>1 DEF Commit, Pull, InstallBuilt, Rollback, Begin, InstallFromCache, Uninstall, AimsAtDb
  <2> QED BY <2>2, AgesStand
<1>4. CASE Make
  <2>1. origin # "repo" /\ UNCHANGED origin
    BY <1>4 DEF Make, StepInv, FromAur
  <2> QED BY <2>1 DEF AgeInv
<1>5. CASE Finish
  <2>1. Produced \in SUBSET Archives /\ \A f \in Produced : OnDisk(f)
    BY DEF Produced, TypeOK, Transactions
  <2>2. \A f \in files' : \E g \in files : g.ver = f.ver
    BY <1>5, <2>1, NoNewVersion DEF Finish, RetainBuilt, ClearCache, TypeOK, DiskOK
  <2>3. UNCHANGED <<origin, offered, db>> /\ AimsAtDb'
    BY <1>5 DEF Finish, AimsAtDb
  <2> QED BY <2>2, <2>3, AgesStand
<1> QED BY <1>1, <1>2, <1>3, <1>4, <1>5

LEMMA AgeStep == TypeOK /\ StepInv /\ AgeInv /\ [Next]_vars => AgeInv'
<1> SUFFICES ASSUME TypeOK, StepInv, AgeInv, [Next]_vars PROVE AgeInv'
  OBVIOUS
<1> USE NothingUnderWay DEF disk, world, counts, Idle
<1>1. CASE Publish
  BY <1>1 DEF Publish, AgeInv, TypeOK, WorldOK, DiskOK, Databases, Vers, SomeVer, Archives
<1>2. CASE \/ DayPasses \/ Harden \/ Killed \/ UNCHANGED vars
           \/ \E n \in Keeps, builds \in BOOLEAN : PlanSweep(n, builds)
           \/ Confirm \/ Retire \/ SweepParts \/ SweepTrees
  <2>1. /\ UNCHANGED <<origin, offered, db>> /\ files' \subseteq files
        /\ UNCHANGED tx \/ tx' = NoTx
    BY <1>2 DEF DayPasses, Harden, Killed, vars, PlanSweep, Confirm, Retire, SweepParts,
                SweepTrees, Without
  <2>2. origin = "repo" => AimsAtDb'
    BY <2>1 DEF AgeInv, AimsAtDb
  <2> QED BY <2>1, <2>2, AgesStand
<1>3. CASE Rescue
  <2>1. PICK moved \in SUBSET {f \in sweep.rescue : OnDisk(f)} : files' = Moved(moved)
    BY <1>3 DEF Rescue
  <2>2. moved \in SUBSET Archives /\ \A f \in moved : OnDisk(f)
    BY DEF TypeOK, Sweeps
  <2>3. \A f \in files' : \E g \in files : g.ver = f.ver
    BY <2>1, <2>2, NoNewVersion DEF TypeOK, DiskOK
  <2>4. UNCHANGED <<origin, offered, db, tx>> /\ (origin = "repo" => AimsAtDb')
    BY <1>3 DEF Rescue, AgeInv, AimsAtDb
  <2> QED BY <2>3, <2>4, AgesStand
<1> QED BY <1>1, <1>2, <1>3, AgeOfSync, AgeOfRest DEF Next, Transaction, Clean

-----------------------------------------------------------------------------
(* What a clean takes.                                                       *)

\* What a clean is not to keep is not installed, and if it keeps anything
\* something precedes it.
LEMMA NotKept ==
  ASSUME NEW n \in Nat, NEW f, ~Keep(f, n)
  PROVE  /\ f.ver # installed.ver
         /\ n > 0 => \E g \in files : Precedes(g, f)
<1>1. f.ver # installed.ver /\ ~(Rank(f) < n)
  BY DEF Keep, IsInstalled
<1>2. ASSUME n > 0, ~\E g \in files : Precedes(g, f) PROVE FALSE
  <2>1. {g \in Inventory.archives : Precedes(g, f)} = {}
    BY <1>2 DEF Inventory
  <2>2. Rank(f) = 0
    BY <2>1, FS_EmptySet DEF Rank
  <2> QED BY <1>1, <1>2, <2>2
<1> QED BY <1>1, <1>2

\* A step that begins no clean, syncs nothing and installs nothing of its own.
LEMMA LaterStands ==
  ASSUME LaterInv, UNCHANGED <<origin, offered, db>>,
         installed'.by = "install" => UNCHANGED installed,
         \/ UNCHANGED sweep \/ sweep'.pc = "idle"
         \/ (UNCHANGED <<sweep.keep, sweep.retired>> /\ sweep.pc # "idle")
  PROVE  LaterInv'
  BY DEF LaterInv

LEMMA LaterStep == TypeOK /\ StepInv /\ GoodInv /\ AgeInv /\ LaterInv /\ [Next]_vars => LaterInv'
<1> SUFFICES ASSUME TypeOK, StepInv, GoodInv, AgeInv, LaterInv, [Next]_vars PROVE LaterInv'
  OBVIOUS
<1> USE NothingUnderWay DEF disk, world, counts, Idle
<1>0. /\ offered \in Nat /\ db.ver \in Nat /\ installed.ver \in Nat
      /\ \A r \in sweep.retired : r.ver \in Nat
      /\ \A f \in files \cup tx.got : f.ver \in Nat
  BY Facts DEF TypeOK, WorldOK, DiskOK, Databases, Installs, Sweeps, Transactions, Archives, Vers, SomeVer
<1>1. CASE Publish
  BY <1>0, <1>1 DEF Publish, LaterInv
<1>2. CASE Refresh
  <2>1. CASE Idle /\ UNCHANGED <<db, stale, torn>>
    BY <1>2, <2>1, LaterStands DEF Refresh
  <2>2. CASE db' = [ver |-> offered, seal |-> "unchecked", level |-> "Never"]
    <3>1. db'.ver = offered /\ UNCHANGED <<origin, offered, installed, sweep>>
      BY <1>2, <2>2 DEF Refresh
    <3> QED BY <1>0, <3>1 DEF LaterInv
  <2> QED BY <1>2, <2>1, <2>2 DEF Refresh
<1>3. CASE VerifyDatabase
  <2>1. db # NoDb /\ (db'.ver = db.ver \/ db' = NoDb)
    BY <1>3, Facts, NothingThere DEF VerifyDatabase, Accept, Refuse, StepInv, TypeOK, DiskOK, Databases
  <2> QED BY <1>3, <2>1 DEF VerifyDatabase, LaterInv
<1>4. CASE Commit
  <2>1. CASE Idle /\ UNCHANGED installed
    BY <1>4, <2>1, LaterStands DEF Commit
  <2>2. ASSUME NEW f \in tx.got,
               installed' = [ver |-> f.ver, good |-> f.good, by |-> "install"]
        PROVE  LaterInv'
    <3>1. origin = "repo" /\ db # NoDb /\ installed'.ver = db.ver
      BY <1>4, <2>2 DEF Commit, StepInv, FromRepo, AgeInv
    <3> QED BY <1>0, <1>4, <3>1 DEF Commit, LaterInv
  <2> QED BY <1>4, <2>1, <2>2 DEF Commit
<1>5. CASE \/ Sync \/ \E keep \in BOOLEAN : Install(keep) \/ Build(keep)
           \/ Reuse \/ Download \/ Downloaded \/ VerifyOne \/ Pull \/ Make \/ Finish \/ Rollback
           \/ DayPasses \/ Harden \/ UNCHANGED vars
  <2>1. UNCHANGED <<origin, offered, db, installed, sweep>>
    BY <1>5 DEF Sync, Install, Build, Begin, Reuse, Download, Downloaded, VerifyOne, Pull, Make,
                Finish, Rollback, DayPasses, Harden, vars
  <2> QED BY <2>1, LaterStands
<1>6. CASE InstallBuilt \/ InstallFromCache \/ Uninstall
  <2>1. UNCHANGED <<origin, offered, db, sweep>> /\ (UNCHANGED installed \/ installed'.by # "install")
    BY <1>6, NothingThere DEF InstallBuilt, InstallFromCache, Uninstall
  <2> QED BY <2>1, LaterStands
<1>7. CASE Killed
  <2>1. UNCHANGED <<origin, offered, db, installed>> /\ sweep' \in {sweep, NoSweep}
    BY <1>7 DEF Killed
  <2> QED BY <2>1, LaterStands
<1>8. ASSUME NEW n \in Keeps, NEW builds \in BOOLEAN, PlanSweep(n, builds) PROVE LaterInv'
  <2>1. /\ sweep'.keep = n /\ sweep'.retired = files \ {f \in files : Keep(f, n)} /\ n \in Nat
        /\ UNCHANGED <<origin, offered, db, installed>>
    BY <1>8, Facts DEF PlanSweep, Inventory
  <2>2. ASSUME origin = "repo", n > 0, NEW r \in sweep'.retired
        PROVE  r.ver < offered /\ (db # NoDb => r.ver < db.ver) /\ r.ver # installed.ver
    <3>1. r \in files /\ ~Keep(r, n)
      BY <2>1, <2>2
    <3>2. PICK g \in files : Precedes(g, r)
      BY <2>1, <2>2, <3>1, NotKept
    <3>3. g.ver > r.ver
      BY <2>2, <3>2 DEF Precedes, GoodInv
    <3>4. r.ver # installed.ver
      BY <2>1, <3>1, NotKept
    <3> QED BY <1>0, <2>2, <3>1, <3>3, <3>4 DEF AgeInv
  <2> QED BY <2>1, <2>2 DEF LaterInv
<1>9. CASE Confirm \/ Rescue \/ Retire \/ SweepParts \/ SweepTrees
  <2>1. /\ UNCHANGED <<origin, offered, db, installed>> /\ sweep.pc # "idle"
        /\ sweep' = NoSweep \/ UNCHANGED <<sweep.keep, sweep.retired>>
    <3>1. CASE Confirm \/ Retire \/ SweepParts \/ SweepTrees
      BY <3>1 DEF Confirm, Retire, SweepParts, SweepTrees, SweepGoes, TypeOK, Sweeps
    <3>2. CASE Rescue
      BY <3>2 DEF Rescue, TypeOK, Sweeps
    <3> QED BY <1>9, <3>1, <3>2
  <2> QED BY <2>1, LaterStands
<1> QED BY <1>1, <1>2, <1>3, <1>4, <1>5, <1>6, <1>7, <1>8, <1>9 DEF Next, Transaction, Clean

\* A step that takes nothing from an undisturbed clean.
LEMMA QuietStands ==
  ASSUME QuietInv, UNCHANGED sweep,
         quiet' /\ sweep.pc # "idle" => quiet /\ UNCHANGED <<files, installed>>
  PROVE  QuietInv'
  BY DEF QuietInv, Doomed, SamePath, Promoted

LEMMA QuietOfTx == ASSUME TypeOK, QuietInv, Transaction PROVE QuietInv'
<1> USE DEF disk, world, counts
<1>1. CASE \/ Sync \/ Refresh \/ VerifyDatabase
           \/ \E keep \in BOOLEAN : Install(keep) \/ Build(keep)
           \/ Reuse \/ Rollback
  <2>1. UNCHANGED <<files, installed, sweep, quiet>>
    BY <1>1 DEF Sync, Install, Build, Begin, Refresh, VerifyDatabase, Reuse, Rollback
  <2> QED BY <2>1, QuietStands
<1>2. CASE \/ Download \/ Downloaded \/ VerifyOne \/ Commit \/ Pull \/ Make \/ InstallBuilt
           \/ Finish \/ InstallFromCache \/ Uninstall
  <2>1. UNCHANGED sweep /\ (sweep.pc # "idle" => ~quiet')
    BY <1>2 DEF Download, Downloaded, VerifyOne, Commit, Pull, Make, InstallBuilt, Finish,
                InstallFromCache, Uninstall, Disturb
  <2> QED BY <2>1, QuietStands
<1> QED BY <1>1, <1>2 DEF Transaction

LEMMA QuietPlan ==
  ASSUME TypeOK, NEW n \in Keeps, NEW builds \in BOOLEAN, PlanSweep(n, builds) PROVE QuietInv'
<1> DEFINE kept == {f \in files : Keep(f, n)}
<1>1. /\ sweep'.pc = "agree" /\ sweep'.kept = kept /\ sweep'.retired = files \ kept
      /\ sweep'.rescue = IF builds THEN RescueOf(kept) ELSE {}
      /\ sweep'.trees => builds
      /\ UNCHANGED <<files, installed>>
  BY DEF PlanSweep, Inventory, disk
<1>2. \A r \in files \ kept : r.ver # installed.ver
  BY NotKept, Facts
<1> QED BY <1>1, <1>2 DEF QuietInv, RescueOf

\* What is rescued leaves the tree, for good or for the place in the cache that
\* is about to be retired.
LEMMA QuietRescue ==
  ASSUME TypeOK, PathInv, QuietInv, Rescue, quiet PROVE QuietInv'
<1>1. PICK moved \in SUBSET {f \in sweep.rescue : OnDisk(f)} :
        /\ files' = Moved(moved)
        /\ sweep' = [sweep EXCEPT !.pc = "retire", !.stranded = moved # sweep.rescue]
  BY DEF Rescue
<1>2. /\ sweep'.pc = "retire" /\ (sweep'.stranded <=> moved # sweep.rescue)
      /\ UNCHANGED <<installed, sweep.rescue, sweep.kept, sweep.retired, sweep.trees>>
  BY <1>1 DEF Rescue, TypeOK, Sweeps
<1>3. /\ \A r \in sweep.retired : r.ver # installed.ver
      /\ files = sweep.kept \cup sweep.retired /\ moved \subseteq sweep.kept
      /\ \A f \in moved : f.at = "tree"
      /\ moved \in SUBSET Archives /\ files \subseteq Archives
      /\ sweep.trees => \A f \in sweep.kept : f.at = "tree" => f \in sweep.rescue
  BY DEF Rescue, QuietInv, TypeOK, DiskOK, Sweeps
<1>4. \A f \in moved : /\ Promoted(f) \in files' /\ Promoted(f).ver = f.ver
                       /\ Promoted(f).at = "root"
  BY <1>1, <1>3, Moving DEF Moved
<1>5. OnePerPath(files)
  BY DEF PathInv, OnePerPath
<1>6. \A f \in files \ moved : f \in files' \/ \E h \in moved : SamePath(f, Promoted(h))
  BY <1>1, <1>3, <1>5 DEF Moved, Without, OnePerPath
<1>7. ASSUME Doomed', NEW f \in files', f.at = "tree" PROVE f \in sweep.retired
  <2>1. moved = sweep.rescue /\ sweep.trees
    BY <1>2, <1>7 DEF Doomed
  <2>2. f \in Without(moved)
    BY <1>1, <1>3, <1>7, Moving DEF Moved, Without
  <2>3. f \in files /\ f \notin moved
    BY <2>2 DEF Without, SamePath
  <2> QED BY <1>3, <1>7, <2>1, <2>3
<1>8. ASSUME NEW f \in sweep.kept
      PROVE  \E g \in files' : g.ver = f.ver /\ (g.at = "root" \/ (g = f /\ ~Doomed'))
  <2>1. CASE f \in moved
    BY <1>4, <2>1
  <2>2. CASE f \in files' /\ f \notin moved
    <3>1. f.at = "root" \/ f.at = "tree"
      BY <1>3 DEF Archives
    <3>2. f.at = "tree" => ~Doomed'
      BY <1>2, <1>3, <2>2 DEF Doomed
    <3> QED BY <2>2, <3>1, <3>2
  <2>3. CASE \E h \in moved : SamePath(f, Promoted(h))
    BY <1>4, <2>3 DEF SamePath
  <2> QED BY <1>3, <1>6, <2>1, <2>2, <2>3
<1> QED BY <1>2, <1>3, <1>7, <1>8 DEF QuietInv

LEMMA QuietRetire ==
  ASSUME TypeOK, PathInv, QuietInv, Retire, quiet PROVE QuietInv'
<1>1. PICK removed \in {{}, sweep.retired} : files' = Without(removed)
  BY DEF Retire
<1>2. /\ sweep'.pc = "parts"
      /\ UNCHANGED <<installed, sweep.rescue, sweep.kept, sweep.retired, sweep.trees, sweep.stranded>>
  BY DEF Retire, SweepGoes, TypeOK, Sweeps
<1>3. /\ \A r \in sweep.retired : r.ver # installed.ver
      /\ Doomed => \A f \in files : f.at = "tree" => f \in sweep.retired
      /\ \A f \in sweep.kept, r \in sweep.retired : ~SamePath(f, r)
      /\ files' \subseteq files
  BY <1>1 DEF Retire, QuietInv, PathInv, Without
<1>4. ASSUME NEW f \in sweep.kept
      PROVE  \/ \E g \in files' : g.ver = f.ver /\ (g.at = "root" \/ (g = f /\ ~Doomed))
             \/ \E r \in sweep.retired : SamePath(r, Promoted(f))
  <2>1. CASE \E r \in sweep.retired : SamePath(r, Promoted(f))
    BY <2>1
  <2>2. ASSUME NEW g \in files, g.ver = f.ver, g.at = "root" \/ (g = f /\ ~Doomed), g \notin files'
        PROVE  \E r \in sweep.retired : SamePath(r, Promoted(f))
    <3>1. PICK r \in sweep.retired : SamePath(g, r)
      BY <1>1, <2>2 DEF Without
    <3>2. g.at = "root"
      BY <1>3, <2>2, <3>1
    <3>3. f \in Archives
      BY DEF TypeOK, Sweeps
    <3>4. Promoted(f).ver = f.ver /\ Promoted(f).at = "root"
      BY <3>3 DEF Promoted, Archives
    <3> QED BY <2>2, <3>1, <3>2, <3>4 DEF SamePath
  <2> QED BY <2>1, <2>2 DEF QuietInv, Retire
<1>5. Doomed' = Doomed
  BY <1>2 DEF Doomed
<1> QED BY <1>2, <1>3, <1>4, <1>5 DEF QuietInv, SamePath, Promoted

LEMMA QuietStep == TypeOK /\ PathInv /\ QuietInv /\ [Next]_vars => QuietInv'
<1> SUFFICES ASSUME TypeOK, PathInv, QuietInv, [Next]_vars PROVE QuietInv'
  OBVIOUS
<1> USE NothingUnderWay DEF disk, world, counts
<1>1. CASE Publish \/ DayPasses \/ Harden \/ UNCHANGED vars
  <2>1. UNCHANGED <<files, installed, sweep, quiet>>
    BY <1>1 DEF Publish, DayPasses, Harden, vars
  <2> QED BY <2>1, QuietStands
<1>2. CASE Killed
  <2>1. UNCHANGED <<files, installed, quiet>> /\ sweep' \in {sweep, NoSweep}
    BY <1>2 DEF Killed
  <2>2. CASE sweep' = NoSweep
    BY <2>2 DEF QuietInv
  <2> QED BY <2>1, <2>2, QuietStands
<1>3. CASE Confirm
  <2>1. CASE sweep' = NoSweep
    BY <2>1 DEF QuietInv
  <2>2. CASE SweepGoes("rescue")
    <3>1. /\ sweep'.pc = "rescue" /\ UNCHANGED <<files, installed, quiet>>
          /\ UNCHANGED <<sweep.rescue, sweep.kept, sweep.retired, sweep.trees>>
      BY <1>3, <2>2 DEF Confirm, SweepGoes, TypeOK, Sweeps
    <3> QED BY <1>3, <3>1 DEF Confirm, QuietInv
  <2> QED BY <1>3, <2>1, <2>2 DEF Confirm
<1>4. CASE Rescue \/ Retire
  <2>1. CASE quiet
    BY <1>4, <2>1, QuietRescue, QuietRetire
  <2>2. CASE ~quiet
    BY <1>4, <2>2 DEF Rescue, Retire, QuietInv
  <2> QED BY <2>1, <2>2
<1>5. CASE SweepParts
  <2>1. /\ sweep'.pc = "trees" /\ UNCHANGED <<files, installed, quiet>>
        /\ UNCHANGED <<sweep.rescue, sweep.kept, sweep.retired, sweep.trees, sweep.stranded>>
    BY <1>5 DEF SweepParts, SweepGoes, TypeOK, Sweeps
  <2> QED BY <1>5, <2>1 DEF SweepParts, QuietInv, Doomed, SamePath, Promoted
<1>6. CASE SweepTrees
  BY <1>6 DEF SweepTrees, QuietInv
<1> QED BY <1>1, <1>2, <1>3, <1>4, <1>5, <1>6, QuietOfTx, QuietPlan DEF Next, Clean

LEMMA InvStep == Inv /\ [Next]_vars => Inv'
  BY TypeStep, GoodStep, SealStep, PathStep, AgeStep, LaterStep, QuietStep DEF Inv

\* The copy of what is installed outlives each step of a clean that may take
\* some.
LEMMA RetireSpares ==
  ASSUME Inv, Retire, quiet \/ (sweep.keep > 0 /\ installed.by = "install"),
         Copies(files, installed.ver) # {}
  PROVE  Copies(files', installed.ver) # {}
<1>1. PICK removed \in {{}, sweep.retired} : files' = Without(removed)
  BY DEF Retire
<1>2. \A r \in sweep.retired : r.ver # installed.ver
  BY DEF Inv, Retire, QuietInv, LaterInv, GoodInv
<1>3. PICK f \in files : f.ver = installed.ver
  BY DEF Copies
<1>4. f \in files'
  BY <1>1, <1>2, <1>3 DEF Without, SamePath
<1> QED BY <1>3, <1>4 DEF Copies

LEMMA TreesSpare ==
  ASSUME Inv, SweepTrees, quiet \/ (sweep.keep > 0 /\ installed.by = "install"),
         Copies(files, installed.ver) # {}
  PROVE  Copies(files', installed.ver) # {}
<1>1. PICK f \in files : f.ver = installed.ver
  BY DEF Copies
<1>2. f.at \in {"root", "tree"}
  BY DEF Inv, TypeOK, DiskOK, Archives
<1>3. Doomed => f.at = "root"
  <2>1. CASE quiet
    BY <1>1, <1>2, <2>1 DEF SweepTrees, Inv, QuietInv
  <2>2. CASE installed.by = "install"
    BY <2>2 DEF Inv, GoodInv
  <2> QED BY <2>1, <2>2
<1>4. f \in files'
  BY <1>1, <1>3 DEF SweepTrees
<1> QED BY <1>1, <1>4 DEF Copies

\* What the rule kept is there at the end.
LEMMA KeptRemains ==
  ASSUME Inv, SweepTrees, quiet, NEW f \in sweep.kept
  PROVE  \/ Copies(files', f.ver) # {}
         \/ \E g \in sweep.retired : SamePath(g, Promoted(f))
<1>1. \/ \E g \in files : g.ver = f.ver /\ (g.at = "root" \/ (g = f /\ ~Doomed))
      \/ \E r \in sweep.retired : SamePath(r, Promoted(f))
  BY DEF Inv, QuietInv, SweepTrees
<1>2. ASSUME NEW g \in files, g.ver = f.ver, g.at = "root" \/ (g = f /\ ~Doomed)
      PROVE  g \in files'
  BY <1>2 DEF SweepTrees
<1> QED BY <1>1, <1>2 DEF Copies

LEMMA SpareStepHolds == Inv /\ [Next]_vars => SpareStep
<1> SUFFICES ASSUME Inv, [Next]_vars PROVE SpareStep
  OBVIOUS
<1>1. CASE Retire
  BY <1>1, RetireSpares DEF SpareStep, Retire
<1>2. CASE SweepTrees
  BY <1>2, TreesSpare, KeptRemains DEF SpareStep
<1>3. CASE Killed
  <2>1. UNCHANGED files /\ crashes' = crashes + 1 /\ crashes \in Nat
    BY <1>3 DEF Killed, disk, Inv, TypeOK, CountsOK
  <2> QED BY <2>1 DEF SpareStep
<1>4. CASE UNCHANGED vars \/ Transaction \/ Publish \/ DayPasses \/ Harden
  <2>1. UNCHANGED sweep
    BY <1>4 DEF vars, Transaction, Sync, Install, Build, Begin, Refresh, VerifyDatabase, Reuse,
         Rollback, Download, Downloaded, VerifyOne, Commit, Pull, Make, InstallBuilt, Finish,
         InstallFromCache, Uninstall, Publish, DayPasses, Harden
  <2> QED BY <2>1 DEF SpareStep
<1>5. CASE \/ \E n \in Keeps, builds \in BOOLEAN : PlanSweep(n, builds)
           \/ Confirm \/ Rescue \/ SweepParts
  <2>1. sweep.pc \notin {"retire", "trees"}
    BY <1>5 DEF PlanSweep, Confirm, Rescue, SweepParts
  <2> QED BY <2>1 DEF SpareStep
<1> QED BY <1>1, <1>2, <1>3, <1>4, <1>5 DEF Next, Clean

\* A clean that nothing else disturbs leaves a copy of the installed version,
\* and a copy of every version the rule kept but one rescued into a retired
\* archive's place; one that keeps anything never takes what an install beside
\* it has just put in (ops/cache.rs, plan and apply).
THEOREM CleanNeverTakes == Spec => CleanSpares
<1>1. Spec => []Inv
  BY Start, InvStep, PTL DEF Spec
<1> QED BY <1>1, SpareStepHolds, PTL DEF Spec, CleanSpares

====
