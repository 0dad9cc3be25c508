---------------------------- MODULE ReviewProofs ----------------------------
(***************************************************************************)
(* Proofs about `rvn config` beside a transaction, for any files, versions, *)
(* edits, mishaps and saved copies.                                         *)
(***************************************************************************)
EXTENDS Review, TLAPS

TxSteps   == {"idle", "files", "drop", "rmdir", "desc", "list"}
DeskSteps == {"away", "walk", "record", "rename", "save", "swap", "edit", "discard"}
Bytes     == Contents \cup {None}

TxRecords ==
  [step : TxSteps, to : Versions \cup {None}, was : Versions \cup {None}, hash : Backup,
   kept : SUBSET Files]
DeskRecords ==
  [step : DeskSteps, verb : Verbs, todo : SUBSET Files, file : Files \cup {None},
   ver : Versions \cup {None}, hash : Backup]

FilesOK   == live \in [Files -> Bytes] /\ pacnew \in [Files -> Bytes]
                /\ saved \in [Files -> Seq(Contents \cup {Torn})]
RecordsOK == /\ dirs \subseteq Versions
             /\ desc \in [Versions -> Backup \cup {None, Torn}]
             /\ list \in [Versions -> {None, Torn, Whole}]
GhostsOK  == owed \subseteq Files \X AdminBytes /\ agreed \in Backup
                /\ sound \in Versions \cup {None}
TypeOK ==
  /\ FilesOK /\ RecordsOK /\ GhostsOK
  /\ tx \in TxRecords /\ desk \in DeskRecords
  /\ edits \in Nat /\ mishaps \in Nat

\* What a step works on is there to be worked on.
StepInv ==
  /\ tx.step = "files" => tx.to # None \/ tx.was # None
  /\ tx.step \in {"desc", "list"} => tx.to \in Versions
  /\ tx.step \in {"drop", "rmdir"} => tx.was \in Versions
  /\ desk.step \notin {"away", "walk"} => desk.file \in Files
  /\ desk.step = "rename" => desk.ver \in Versions

\* A record that is complete belongs to no transaction any more; one that lacks
\* its list only, to the one that is about to write it.
RecordInv ==
  /\ sound # None => tx.step = "idle" /\ Readable(sound) /\ list[sound] = Whole
  /\ tx.step = "list" => Readable(tx.to)

\* What a review would put on record of a file another verb has settled is what
\* that put there, unless another directory's record has it.
SettledInv ==
  /\ SettledOnRecord
  /\ desk.step # "away" =>
       \A f \in Files : agreed[f] # None =>
         \/ agreed[f] = desk.hash[f]
         \/ \E v \in Versions \ {desk.ver} : Readable(v) /\ desc[v][f] = agreed[f]

\* Between the copy and what writes over the file, the copy is there.
Held(f, b) == \E i \in DOMAIN saved[f] : saved[f][i] = b
OriginalInv ==
  /\ OriginalsKept
  /\ desk.step \in {"swap", "edit"} /\ live[desk.file] \in AdminBytes =>
       Held(desk.file, live[desk.file])

Inv == TypeOK /\ StepInv /\ RecordInv /\ SettledInv /\ OriginalInv
-----------------------------------------------------------------------------
(* Types, and what a step works on.                                          *)

LEMMA Shipping ==
  /\ \A v \in Versions, f \in Files : Ships[v][f] \in Contents \ AdminBytes
  /\ None \notin AdminBytes /\ AdminBytes \subseteq Contents
  BY ReviewAssumption DEF Contents

LEMMA Start == Init => Inv
<1> SUFFICES ASSUME Init PROVE Inv
  OBVIOUS
<1> USE ReviewAssumption DEF Init
<1>1. Unknown \in Backup
  BY DEF Unknown, Backup
<1>2. tx \in TxRecords /\ desk \in DeskRecords
  BY <1>1 DEF NoTx, Away, TxRecords, DeskRecords, TxSteps, DeskSteps, Verbs
<1>3. FilesOK /\ RecordsOK /\ GhostsOK
  BY <1>1 DEF FilesOK, RecordsOK, GhostsOK, Bytes
<1>4. StepInv /\ RecordInv
  BY DEF StepInv, RecordInv, NoTx, Away
<1>5. SettledInv /\ OriginalInv
  BY DEF SettledInv, SettledOnRecord, OriginalInv, OriginalsKept, Away, Unknown
<1> QED BY <1>2, <1>3, <1>4, <1>5 DEF Inv, TypeOK

LEMMA NothingKnown ==
  /\ NoTx \in TxRecords /\ NoTx.step = "idle"
  /\ Away \in DeskRecords /\ Away.step = "away"
  /\ Unknown \in Backup
  BY DEF NoTx, Away, TxRecords, DeskRecords, TxSteps, DeskSteps, Verbs, Unknown, Backup

LEMMA TypeOfTx ==
  ASSUME TypeOK, StepInv, Transaction PROVE TypeOK' /\ StepInv'
<1> USE ReviewAssumption, NothingKnown DEF TypeOK, StepInv, files, records, ghosts, bounds
<1>1. ASSUME NEW to \in Versions \cup {None}, Begin(to) PROVE TypeOK' /\ StepInv'
  <2>1. tx' \in TxRecords /\ tx'.step = "files" /\ (tx'.to # None \/ tx'.was # None)
    BY <1>1 DEF Begin, TxRecords, TxSteps
  <2> QED BY <1>1, <2>1 DEF Begin, FilesOK, RecordsOK, GhostsOK
<1>2. CASE PlaceFiles
  <2>1. /\ tx' \in TxRecords /\ tx'.to = tx.to /\ tx'.was = tx.was
        /\ tx'.step = "desc" => tx.to \in Versions
        /\ tx'.step \in {"desc", "drop"}
        /\ tx'.step = "drop" => tx.was \in Versions
    BY <1>2 DEF PlaceFiles, TxRecords, TxSteps
  <2>2. CASE tx.to = None
    <3>1. live' \in [Files -> Bytes] /\ pacnew' \in [Files -> Bytes]
      BY <1>2, <2>2 DEF PlaceFiles, FilesOK, Bytes
    <3> QED BY <1>2, <2>1, <3>1 DEF PlaceFiles, FilesOK, RecordsOK, GhostsOK
  <2>3. CASE tx.to # None
    <3>1. tx.to \in Versions
      BY <2>3 DEF TxRecords
    <3>2. \A f \in Files : Ships[tx.to][f] \in Bytes
      BY <3>1, Shipping DEF Bytes
    <3>3. live' \in [Files -> Bytes] /\ pacnew' \in [Files -> Bytes]
      BY <1>2, <2>3, <3>2 DEF PlaceFiles, FilesOK, Bytes
    <3> QED BY <1>2, <2>1, <3>3 DEF PlaceFiles, FilesOK, RecordsOK, GhostsOK
  <2> QED BY <2>2, <2>3
<1>3. CASE DropDesc \/ DropList
  <2>1. tx' \in TxRecords /\ tx'.step \in {"drop", "rmdir"} /\ tx'.was = tx.was /\ tx.was \in Versions
    BY <1>3 DEF DropDesc, DropList, TxRecords, TxSteps
  <2> QED BY <1>3, <2>1 DEF DropDesc, DropList, FilesOK, RecordsOK, GhostsOK
<1>4. CASE DropDir \/ DropDirFails
  <2>1. tx' \in TxRecords /\ (tx'.step = "idle" \/ (tx'.step = "desc" /\ tx'.to \in Versions))
    BY <1>4 DEF DropDir, DropDirFails, NoTx, TxRecords, TxSteps
  <2> QED BY <1>4, <2>1 DEF DropDir, DropDirFails, FilesOK, RecordsOK, GhostsOK
<1>5. CASE WriteDesc
  <2>1. tx' \in TxRecords /\ tx'.step = "list" /\ tx'.to = tx.to /\ tx.to \in Versions
    BY <1>5 DEF WriteDesc, TxRecords, TxSteps
  <2>2. [f \in Files |-> Shipped(f)] \in Backup
    BY DEF Shipped, FilesOK, Bytes, Backup
  <2> QED BY <1>5, <2>1, <2>2 DEF WriteDesc, FilesOK, RecordsOK, GhostsOK
<1>6. CASE WriteList
  BY <1>6 DEF WriteList, NoTx, FilesOK, RecordsOK, GhostsOK, TxRecords
<1>7. CASE TxStops
  <2>1. RecordsOK' /\ agreed' \in Backup
    BY <1>7 DEF TxStops, RecordsOK, GhostsOK, TxRecords
  <2> QED BY <1>7, <2>1 DEF TxStops, Mishap, NoTx, FilesOK, GhostsOK
<1> QED BY <1>1, <1>2, <1>3, <1>4, <1>5, <1>6, <1>7 DEF Transaction

\* Where a step of the review goes, and what it remembers.
LEMMA Goes ==
  ASSUME TypeOK, NEW s \in DeskSteps, NEW todo \in SUBSET Files, NEW f \in Files \cup {None},
         NEW h \in Backup, Go(s, todo, f, h)
  PROVE  /\ desk' \in DeskRecords /\ desk'.step = s /\ desk'.file = f /\ desk'.hash = h
         /\ desk'.ver = desk.ver /\ desk'.verb = desk.verb
  BY DEF Go, TypeOK, DeskRecords

LEMMA Steps ==
  ASSUME TypeOK, NEW s \in DeskSteps, Step(s)
  PROVE  /\ desk' \in DeskRecords /\ desk'.step = s /\ desk'.hash = desk.hash
         /\ desk'.ver = desk.ver /\ desk'.verb = desk.verb /\ (s # "walk" => desk'.file = desk.file)
<1>1. desk.todo \in SUBSET Files /\ desk.file \in Files \cup {None} /\ desk.hash \in Backup
  BY DEF TypeOK, DeskRecords
<1> QED BY <1>1, Goes DEF Step

LEMMA NextSteps == AfterRecord \in {"save", "discard"} /\ AfterSave \in {"swap", "edit"}
  BY DEF AfterRecord, AfterSave

LEMMA TypeOfDesk ==
  ASSUME TypeOK, StepInv, Desk PROVE TypeOK' /\ StepInv'
<1> USE ReviewAssumption, NothingKnown DEF files, records, ghosts, bounds
<1>1. ASSUME NEW verb \in Verbs, Open(verb) PROVE TypeOK' /\ StepInv'
  <2>1. desk' \in DeskRecords /\ desk'.step = "walk"
    BY <1>1 DEF TypeOK, StepInv, Open, Waiting, DeskRecords, DeskSteps
  <2> QED BY <1>1, <2>1 DEF TypeOK, StepInv, Open, FilesOK, RecordsOK, GhostsOK
<1>2. ASSUME NEW f \in desk.todo, Agree(f) PROVE TypeOK' /\ StepInv'
  <2>1. /\ (IF desk.verb = "merge" THEN "save" ELSE "record") \in DeskSteps
        /\ desk.todo \ {f} \in SUBSET Files /\ f \in Files /\ desk.hash \in Backup
    BY DEF TypeOK, StepInv, DeskSteps, DeskRecords
  <2>2. desk' \in DeskRecords /\ desk'.file = f /\ desk'.step \in {"save", "record"}
    BY <1>2, <2>1, Goes DEF Agree
  <2> QED BY <1>2, <2>1, <2>2 DEF TypeOK, StepInv, Agree, FilesOK, RecordsOK, GhostsOK
<1>3. CASE ReadRecord
  <2> DEFINE f == desk.file
  <2>1. f \in Files
    BY <1>3 DEF TypeOK, StepInv, ReadRecord
  <2>2. CASE Step(AfterRecord) /\ UNCHANGED agreed
    <3>1. desk' \in DeskRecords /\ desk'.step \in {"save", "discard"} /\ desk'.file = f
      <4>1. AfterRecord \in DeskSteps /\ AfterRecord # "walk"
        BY NextSteps DEF DeskSteps
      <4> QED BY <2>2, <4>1, Steps, NextSteps
    <3> QED BY <1>3, <2>1, <2>2, <3>1 DEF TypeOK, StepInv, ReadRecord, FilesOK, RecordsOK, GhostsOK
  <2>3. CASE /\ desk.ver # None
             /\ Go(IF Readable(desk.ver) THEN "rename" ELSE AfterRecord, desk.todo, f,
                   Noted(desk.hash, f, pacnew[f]))
             /\ agreed' = [agreed EXCEPT ![f] = None]
    <3>1. Noted(desk.hash, f, pacnew[f]) \in Backup /\ agreed' \in Backup
      BY <2>1, <2>3 DEF TypeOK, StepInv, Noted, FilesOK, GhostsOK, DeskRecords, Backup, Bytes
    <3>2. (IF Readable(desk.ver) THEN "rename" ELSE AfterRecord) \in DeskSteps
      BY NextSteps DEF DeskSteps
    <3>3. /\ desk' \in DeskRecords /\ desk'.file = f /\ desk'.ver = desk.ver
          /\ desk'.step \in {"rename", "save", "discard"}
      <4>1. desk.todo \in SUBSET Files /\ f \in Files \cup {None}
        BY <2>1 DEF TypeOK, DeskRecords
      <4> QED BY <2>3, <3>1, <3>2, <4>1, Goes, NextSteps
    <3> QED BY <1>3, <2>1, <2>3, <3>1, <3>3 DEF TypeOK, StepInv, ReadRecord, FilesOK, RecordsOK, GhostsOK, DeskRecords
  <2> QED BY <1>3, <2>2, <2>3 DEF TypeOK, StepInv, ReadRecord
<1>4. CASE RenameRecord \/ StagingFails
  <2>1. desk' \in DeskRecords /\ desk'.step \in {"save", "discard"} /\ desk'.file = desk.file
    <3>1. Step(AfterRecord) /\ AfterRecord \in DeskSteps /\ AfterRecord # "walk"
      BY <1>4, NextSteps DEF RenameRecord, StagingFails, DeskSteps
    <3> QED BY <3>1, Steps, NextSteps
  <2>2. RecordsOK' /\ agreed' \in Backup
    BY <1>4 DEF TypeOK, StepInv, RenameRecord, StagingFails, RecordsOK, GhostsOK, DeskRecords, Backup
  <2> QED BY <1>4, <2>1, <2>2 DEF TypeOK, StepInv, RenameRecord, StagingFails, Mishap, FilesOK, GhostsOK
<1>5. CASE SaveOriginal \/ SaveFails
  <2>1. \/ desk' = Away
        \/ desk' \in DeskRecords /\ desk'.step \in {"swap", "edit"} /\ desk'.file = desk.file
    <3>1. Step(AfterSave) \/ desk' = Away
      BY <1>5 DEF TypeOK, StepInv, SaveOriginal, SaveFails
    <3> QED BY <1>5, <3>1, Steps, NextSteps DEF SaveOriginal, SaveFails, DeskSteps
  <2>2. saved' \in [Files -> Seq(Contents \cup {Torn})]
    <3>1. \A b \in Contents \cup {Torn} : SaveBeside(desk.file, b) \in Seq(Contents \cup {Torn})
      BY <1>5 DEF TypeOK, StepInv, SaveOriginal, SaveFails, SaveBeside, FilesOK
    <3>2. live[desk.file] # None => live[desk.file] \in Contents
      BY <1>5 DEF TypeOK, StepInv, SaveOriginal, SaveFails, FilesOK, Bytes
    <3>3. CASE UNCHANGED saved
      BY <3>3 DEF TypeOK, StepInv, FilesOK
    <3>4. CASE \E b \in Contents \cup {Torn} :
                 saved' = [saved EXCEPT ![desk.file] = SaveBeside(desk.file, b)]
      BY <3>1, <3>4 DEF TypeOK, StepInv, FilesOK
    <3> QED BY <1>5, <3>2, <3>3, <3>4 DEF TypeOK, StepInv, SaveOriginal, SaveFails
  <2>3. desk'.step # "rename"
    BY <2>1
  <2> QED BY <1>5, <2>1, <2>2, <2>3 DEF TypeOK, StepInv, SaveOriginal, SaveFails, Mishap, FilesOK, RecordsOK, GhostsOK
<1>6. CASE Swap
  <2>1. desk' = Away \/ (desk' \in DeskRecords /\ desk'.step = "walk")
    BY <1>6, Steps DEF Swap, DeskSteps
  <2>2. owed' \subseteq Files \X AdminBytes
    BY <1>6 DEF TypeOK, StepInv, Swap, Owing, GhostsOK
  <2>3. live' \in [Files -> Bytes] /\ pacnew' \in [Files -> Bytes]
    BY <1>6 DEF TypeOK, StepInv, Swap, FilesOK, Bytes
  <2> QED BY <1>6, <2>1, <2>2, <2>3 DEF TypeOK, StepInv, Swap, FilesOK, RecordsOK, GhostsOK
<1>7. CASE Merge
  <2>1. PICK b \in AdminBytes \cup {live[desk.file]}, n \in AdminBytes \cup {pacnew[desk.file]},
             finished \in BOOLEAN : Edit(desk.file, b, n, finished)
    BY <1>7 DEF TypeOK, StepInv, Merge
  <2>2. desk.file \in Files
    BY <1>7 DEF TypeOK, StepInv, Merge
  <2>3. b \in Bytes /\ n \in Bytes
    BY <2>2, Shipping DEF TypeOK, StepInv, FilesOK, Bytes
  <2>4. live' \in [Files -> Bytes] /\ pacnew' \in [Files -> Bytes] /\ owed' \subseteq Files \X AdminBytes
    BY <2>1, <2>2, <2>3 DEF TypeOK, StepInv, Edit, Owing, FilesOK, GhostsOK
  <2>5. desk' \in DeskRecords /\ (desk'.step = "walk" \/ (desk'.step = "record" /\ desk'.file = desk.file))
    BY <2>1, Steps DEF Edit, DeskSteps
  <2>6. edits' \in Nat
    BY <2>1 DEF TypeOK, StepInv, Edit
  <2> QED BY <2>1, <2>2, <2>4, <2>5, <2>6 DEF TypeOK, StepInv, Edit, FilesOK, RecordsOK, GhostsOK
<1>8. CASE Discard
  <2>1. desk' = Away \/ (desk' \in DeskRecords /\ desk'.step = "walk")
    BY <1>8, Steps DEF Discard, DeskSteps
  <2>2. pacnew' \in [Files -> Bytes]
    BY <1>8 DEF TypeOK, StepInv, Discard, FilesOK, Bytes
  <2> QED BY <1>8, <2>1, <2>2 DEF TypeOK, StepInv, Discard, FilesOK, RecordsOK, GhostsOK
<1>9. CASE Close \/ DeskDies
  <2>1. desk' = Away
    BY <1>9 DEF TypeOK, StepInv, Close, DeskDies
  <2> QED BY <1>9, <2>1 DEF TypeOK, StepInv, Close, DeskDies, Mishap, FilesOK, RecordsOK, GhostsOK
<1> QED BY <1>1, <1>2, <1>3, <1>4, <1>5, <1>6, <1>7, <1>8, <1>9 DEF TypeOK, StepInv, Desk

LEMMA TypeStep == TypeOK /\ StepInv /\ [Next]_vars => TypeOK' /\ StepInv'
<1> SUFFICES ASSUME TypeOK, StepInv, [Next]_vars PROVE TypeOK' /\ StepInv'
  OBVIOUS
<1>1. ASSUME NEW f \in Editable, NEW b \in AdminBytes, AdminEdits(f, b) PROVE TypeOK' /\ StepInv'
  <2>1. live' \in [Files -> Bytes] /\ edits' \in Nat
    BY <1>1, Shipping, ReviewAssumption DEF AdminEdits, TypeOK, FilesOK, Bytes
  <2> QED BY <1>1, <2>1 DEF AdminEdits, TypeOK, FilesOK, RecordsOK, GhostsOK, StepInv, records, ghosts
<1>2. CASE UNCHANGED vars
  BY <1>2 DEF vars, files, records, ghosts, bounds, TypeOK, FilesOK, RecordsOK, GhostsOK, StepInv
<1> QED BY <1>1, <1>2, TypeOfTx, TypeOfDesk DEF Next

\* What is on disk and on record keeps to its type, whoever stops where.
THEOREM TypeCorrect == Spec => []TypeOK
<1>1. Init => TypeOK /\ StepInv
  BY Start DEF Inv
<1> QED BY <1>1, TypeStep, PTL DEF Spec

-----------------------------------------------------------------------------
(* Records: what a transaction has finished, and what a review rewrites.     *)

\* A step of the review leaves what can be read to be read.
LEMMA DeskReadable ==
  ASSUME TypeOK, StepInv, Desk
  PROVE  /\ UNCHANGED <<list, tx, sound, dirs>>
         /\ \A v \in Versions : Readable(v) => Readable(v)'
<1> USE DEF records, ghosts
<1>1. CASE RenameRecord
  <2>1. desk.ver \in Versions /\ desk.hash \in Backup
    BY <1>1 DEF RenameRecord, StepInv, TypeOK, DeskRecords
  <2> QED BY <1>1, <2>1 DEF RenameRecord, Readable, TypeOK, RecordsOK
<1>2. CASE ~RenameRecord
  <2>1. UNCHANGED <<records, tx, sound>>
    BY <1>2 DEF Desk, Open, Agree, ReadRecord, StagingFails, SaveOriginal, SaveFails, Swap,
                Merge, Edit, Discard, Close, DeskDies
  <2> QED BY <2>1 DEF Readable
<1> QED BY <1>1, <1>2

LEMMA RecordStep == TypeOK /\ StepInv /\ RecordInv /\ [Next]_vars => RecordInv'
<1> SUFFICES ASSUME TypeOK, StepInv, RecordInv, [Next]_vars PROVE RecordInv'
  OBVIOUS
<1> USE ReviewAssumption DEF RecordInv, files, records, ghosts
<1>1. ASSUME NEW to \in Versions \cup {None}, Begin(to) PROVE RecordInv'
  BY <1>1 DEF Begin
<1>2. CASE PlaceFiles \/ DropDesc \/ DropList
  <2>1. sound' = None /\ tx'.step # "list"
    BY <1>2 DEF PlaceFiles, DropDesc, DropList, TypeOK, TxRecords
  <2> QED BY <2>1
<1>3. CASE DropDir \/ DropDirFails
  <2>1. sound' = None /\ tx'.step # "list"
    BY <1>3 DEF DropDir, DropDirFails, NoTx, TypeOK, TxRecords
  <2> QED BY <2>1
<1>4. CASE WriteDesc
  <2>1. tx.to \in Versions /\ tx'.to = tx.to /\ sound' = None
    BY <1>4 DEF WriteDesc, StepInv, TypeOK, TxRecords
  <2>2. [f \in Files |-> Shipped(f)] \in Backup
    BY DEF Shipped, TypeOK, FilesOK, Bytes, Backup
  <2> QED BY <1>4, <2>1, <2>2 DEF WriteDesc, Readable, TypeOK, RecordsOK
<1>5. CASE WriteList
  <2>1. tx.to \in Versions /\ tx' = NoTx
    BY <1>5 DEF WriteList, StepInv
  <2> QED BY <1>5, <2>1, NothingKnown DEF WriteList, Readable, TypeOK, RecordsOK
<1>6. CASE TxStops
  BY <1>6, NothingKnown DEF TxStops
<1>7. CASE Desk
  BY <1>7, DeskReadable DEF TypeOK, GhostsOK, StepInv
<1>8. ASSUME NEW f \in Editable, NEW b \in AdminBytes, AdminEdits(f, b) PROVE RecordInv'
  BY <1>8 DEF AdminEdits, Readable
<1>9. CASE UNCHANGED vars
  BY <1>9 DEF vars, Readable
<1> QED BY <1>1, <1>2, <1>3, <1>4, <1>5, <1>6, <1>7, <1>8, <1>9 DEF Next, Transaction

\* A record a transaction has finished stays readable and complete, beside any
\* review of its files, until the next transaction begins (db/local.rs).
THEOREM FinishedRecordStays == Spec => []Recorded
<1>1. Init => TypeOK /\ StepInv /\ RecordInv
  BY Start DEF Inv
<1>2. RecordInv => Recorded
  BY DEF RecordInv, Recorded
<1> QED BY <1>1, <1>2, TypeStep, RecordStep, PTL DEF Spec

-----------------------------------------------------------------------------
(* Checksums: what a review has settled is on record.                        *)

LEMMA SettledWithRecords ==
  ASSUME SettledInv, desk' = desk, agreed' = agreed,
         \A v \in Versions : Readable(v) => Readable(v)' /\ desc'[v] = desc[v]
  PROVE  SettledInv'
  BY DEF SettledInv, SettledOnRecord

LEMMA SettledNothing ==
  ASSUME agreed' = Unknown PROVE SettledInv'
  BY DEF SettledInv, SettledOnRecord, Unknown

LEMMA SettledWithDesk ==
  ASSUME SettledInv, UNCHANGED <<records, agreed>>,
         \/ desk'.step = "away"
         \/ desk.step # "away" /\ desk'.hash = desk.hash /\ desk'.ver = desk.ver
  PROVE  SettledInv'
  BY DEF SettledInv, SettledOnRecord, Readable, records

LEMMA SettledByTx ==
  ASSUME TypeOK, StepInv, SettledInv, Transaction PROVE SettledInv'
<1> USE ReviewAssumption DEF files, records, ghosts
<1>1. ASSUME NEW to \in Versions \cup {None}, Begin(to) PROVE SettledInv'
  BY <1>1, SettledWithRecords DEF Begin, Readable
<1>2. CASE PlaceFiles \/ DropList \/ DropDirFails \/ WriteList
  BY <1>2, SettledWithRecords DEF PlaceFiles, DropList, DropDirFails, WriteList, Readable
<1>3. CASE DropDesc \/ WriteDesc
  BY <1>3, SettledNothing DEF DropDesc, WriteDesc
<1>4. CASE DropDir
  BY <1>4, SettledWithRecords DEF DropDir, Readable
<1>5. CASE TxStops
  BY <1>5, SettledWithRecords, SettledNothing DEF TxStops, Readable
<1> QED BY <1>1, <1>2, <1>3, <1>4, <1>5 DEF Transaction

LEMMA SettledByDesk ==
  ASSUME TypeOK, StepInv, SettledInv, Desk PROVE SettledInv'
<1> USE DEF records, ghosts
<1>1. ASSUME NEW verb \in Verbs, Open(verb) PROVE SettledInv'
  <2>1. PICK v \in Versions \cup {None}, h \in Backup :
          /\ Loads(v, h)
          /\ desk'.ver = v /\ desk'.hash = h /\ UNCHANGED <<records, agreed>>
    BY <1>1 DEF Open
  <2>2. ASSUME NEW f \in Files, agreed[f] # None
        PROVE  \/ agreed[f] = h[f]
               \/ \E w \in Versions \ {v} : Readable(w) /\ desc[w][f] = agreed[f]
    BY <2>1, <2>2 DEF Loads, SettledInv, SettledOnRecord
  <2> QED BY <2>1, <2>2 DEF SettledInv, SettledOnRecord, Readable
<1>2. ASSUME NEW f \in desk.todo, Agree(f) PROVE SettledInv'
  <2>1. desk'.hash = desk.hash /\ desk'.ver = desk.ver /\ desk.step = "walk"
    BY <1>2 DEF Agree, Go, Turn
  <2> QED BY <1>2, <2>1, SettledWithDesk DEF Agree
<1>3. CASE ReadRecord
  <2>1. CASE Step(AfterRecord) /\ UNCHANGED agreed
    <3>1. desk'.hash = desk.hash /\ desk'.ver = desk.ver /\ desk.step = "record"
      BY <1>3, <2>1 DEF ReadRecord, Step, Go
    <3> QED BY <1>3, <2>1, <3>1, SettledWithDesk DEF ReadRecord
  <2>2. CASE /\ agreed' = [agreed EXCEPT ![desk.file] = None]
             /\ \E s \in DeskSteps :
                  Go(s, desk.todo, desk.file, Noted(desk.hash, desk.file, pacnew[desk.file]))
    <3>1. /\ desk'.hash = [desk.hash EXCEPT ![desk.file] = pacnew[desk.file]]
          /\ desk'.ver = desk.ver /\ desk.step # "away"
      BY <1>3, <2>2 DEF ReadRecord, Go, Noted
    <3>2. UNCHANGED records
      BY <1>3 DEF ReadRecord
    <3>3. /\ desk.hash \in Backup /\ agreed \in Backup
      BY DEF TypeOK, DeskRecords, GhostsOK
    <3>4. \A f \in Files : agreed'[f] # None =>
             f # desk.file /\ agreed'[f] = agreed[f] /\ desk'.hash[f] = desk.hash[f]
      BY <2>2, <3>1, <3>3 DEF Backup
    <3> QED BY <3>1, <3>2, <3>4 DEF SettledInv, SettledOnRecord, Readable
  <2>3. (IF Readable(desk.ver) THEN "rename" ELSE AfterRecord) \in DeskSteps
    BY NextSteps DEF DeskSteps
  <2> QED BY <1>3, <2>1, <2>2, <2>3 DEF ReadRecord
<1>4. CASE RenameRecord
  <2>1. desk'.hash = desk.hash /\ desk'.ver = desk.ver /\ desk.step = "rename"
    BY <1>4 DEF RenameRecord, Step, Go
  <2>2. desk.ver \in Versions /\ desk.file \in Files /\ desk.hash \in Backup
    BY <2>1 DEF StepInv, TypeOK, DeskRecords
  <2>3. CASE desk.ver \in dirs
    <3>1. /\ desc' = [desc EXCEPT ![desk.ver] = desk.hash]
          /\ agreed' = [agreed EXCEPT ![desk.file] = desk.hash[desk.file]] /\ dirs' = dirs
      BY <1>4, <2>3 DEF RenameRecord
    <3>2. Readable(desk.ver)' /\ desc'[desk.ver] = desk.hash
      BY <2>1, <2>2, <2>3, <3>1 DEF Readable, TypeOK, RecordsOK
    <3>3. \A v \in Versions \ {desk.ver} : Readable(v) => Readable(v)' /\ desc'[v] = desc[v]
      BY <3>1 DEF Readable, TypeOK, RecordsOK
    <3>4. ASSUME NEW f \in Files, agreed'[f] # None
          PROVE  \/ agreed'[f] = desk.hash[f]
                 \/ \E v \in Versions \ {desk.ver} : Readable(v)' /\ desc'[v][f] = agreed'[f]
      <4>1. CASE f = desk.file
        BY <2>2, <3>1, <4>1 DEF TypeOK, GhostsOK, Backup
      <4>2. CASE f # desk.file
        <5>1. agreed'[f] = agreed[f]
          BY <3>1, <4>2 DEF TypeOK, GhostsOK, Backup
        <5> QED BY <2>1, <3>3, <3>4, <5>1 DEF SettledInv
      <4> QED BY <4>1, <4>2
    <3> QED BY <2>1, <2>2, <3>2, <3>4 DEF SettledInv, SettledOnRecord
  <2>4. CASE desk.ver \notin dirs
    <3>1. UNCHANGED <<records, agreed>>
      BY <1>4, <2>4 DEF RenameRecord
    <3> QED BY <2>1, <3>1, SettledWithDesk
  <2> QED BY <2>3, <2>4
<1>5. CASE StagingFails \/ SaveOriginal \/ SaveFails
  <2>1. UNCHANGED <<records, agreed>>
    BY <1>5 DEF StagingFails, SaveOriginal, SaveFails
  <2>2. desk' = Away \/ (desk'.hash = desk.hash /\ desk'.ver = desk.ver)
    BY <1>5 DEF StagingFails, SaveOriginal, SaveFails, Step, Go
  <2>3. desk.step # "away"
    BY <1>5 DEF StagingFails, SaveOriginal, SaveFails
  <2> QED BY <2>1, <2>2, <2>3, SettledWithDesk, NothingKnown
<1>6. CASE Swap \/ Discard \/ Close \/ DeskDies
  <2>1. UNCHANGED <<records, agreed>>
    BY <1>6 DEF Swap, Discard, Close, DeskDies
  <2>2. desk' = Away \/ (desk.step # "away" /\ desk'.hash = desk.hash /\ desk'.ver = desk.ver)
    BY <1>6 DEF Swap, Discard, Close, DeskDies, Step, Go
  <2> QED BY <2>1, <2>2, SettledWithDesk, NothingKnown
<1>7. CASE Merge
  <2>1. UNCHANGED <<records, agreed>> /\ desk.step = "edit" /\ (Step("record") \/ Step("walk"))
    BY <1>7 DEF Merge, Edit
  <2>2. desk'.hash = desk.hash /\ desk'.ver = desk.ver
    BY <2>1 DEF Step, Go
  <2> QED BY <2>1, <2>2, SettledWithDesk
<1> QED BY <1>1, <1>2, <1>3, <1>4, <1>5, <1>6, <1>7 DEF Desk

LEMMA SettledStep == TypeOK /\ StepInv /\ SettledInv /\ [Next]_vars => SettledInv'
<1> SUFFICES ASSUME TypeOK, StepInv, SettledInv, [Next]_vars PROVE SettledInv'
  OBVIOUS
<1>1. ASSUME NEW f \in Editable, NEW b \in AdminBytes, AdminEdits(f, b) PROVE SettledInv'
  BY <1>1, SettledWithRecords DEF AdminEdits, Readable, records, ghosts
<1>2. CASE UNCHANGED vars
  BY <1>2, SettledWithRecords DEF vars, records, ghosts, Readable
<1> QED BY <1>1, <1>2, SettledByTx, SettledByDesk DEF Next

\* What a review put on record of one file is not undone while it goes on to
\* the others, or by another review, until a transaction rewrites the record
\* (ops/config.rs, record_shipped_hash).
THEOREM SettledStaysOnRecord == Spec => []SettledOnRecord
<1>1. Init => TypeOK /\ StepInv /\ SettledInv
  BY Start DEF Inv
<1>2. SettledInv => SettledOnRecord
  BY DEF SettledInv
<1> QED BY <1>1, <1>2, TypeStep, SettledStep, PTL DEF Spec

-----------------------------------------------------------------------------
(* The copies.                                                               *)

\* Copies are only added to.
LEMMA CopiesStay ==
  ASSUME TypeOK, NEW g \in Files, NEW c \in Contents \cup {Torn},
         saved' = [saved EXCEPT ![g] = SaveBeside(g, c)]
  PROVE  /\ \A f \in Files : \A b : Held(f, b) => Held(f, b)'
         /\ \E i \in DOMAIN saved'[g] : saved'[g][i] = c
<1>1. saved[g] \in Seq(Contents \cup {Torn}) /\ saved'[g] = Append(saved[g], c)
  BY DEF TypeOK, FilesOK, SaveBeside
<1> DEFINE s == saved[g]
           S == Contents \cup {Torn}
<1>2. ASSUME NEW t \in Seq(S)
      PROVE  /\ Append(t, c) \in Seq(S) /\ Len(Append(t, c)) = Len(t) + 1
             /\ Append(t, c)[Len(t) + 1] = c /\ Len(t) \in Nat /\ DOMAIN t = 1..Len(t)
             /\ DOMAIN Append(t, c) = 1..(Len(t) + 1)
             /\ \A i \in 1..Len(t) : Append(t, c)[i] = t[i]
  BY c \in S
<1>3. /\ saved'[g][Len(s) + 1] = c /\ Len(s) \in Nat /\ DOMAIN s = 1..Len(s)
      /\ DOMAIN saved'[g] = 1..(Len(s) + 1) /\ \A i \in 1..Len(s) : saved'[g][i] = s[i]
  BY <1>1, <1>2
<1>4. \A f \in Files \ {g} : saved'[f] = saved[f]
  BY DEF TypeOK, FilesOK
<1>5. \E i \in DOMAIN saved'[g] : saved'[g][i] = c
  BY <1>3
<1>6. \A b : Held(g, b) => Held(g, b)'
  BY <1>3 DEF Held
<1>7. \A f \in Files \ {g} : \A b : Held(f, b) => Held(f, b)'
  BY <1>4 DEF Held
<1> QED BY <1>5, <1>6, <1>7

\* A step that touches neither the copies nor what is owed, and at which no file
\* a review is about to write over gets contents a person wrote.
LEMMA OriginalsStand ==
  ASSUME OriginalInv, UNCHANGED <<saved, owed>>,
         desk'.step \in {"swap", "edit"} /\ live'[desk'.file] \in AdminBytes =>
           /\ desk.step \in {"swap", "edit"} /\ desk'.file = desk.file
           /\ live'[desk.file] = live[desk.file]
  PROVE  OriginalInv'
  BY DEF OriginalInv, OriginalsKept, Held

LEMMA OriginalsByTx ==
  ASSUME TypeOK, StepInv, OriginalInv, Transaction PROVE OriginalInv'
<1> USE DEF files, records, ghosts
<1>1. CASE PlaceFiles
  <2>1. /\ desk' = desk /\ UNCHANGED <<saved, owed>>
        /\ tx.to \in Versions \cup {None}
    BY <1>1 DEF PlaceFiles, TypeOK, TxRecords
  <2>2. \A f \in Files : live'[f] \in AdminBytes => live'[f] = live[f]
    BY <1>1, <2>1, Shipping DEF PlaceFiles
  <2>3. desk.step \in {"swap", "edit"} => desk.file \in Files
    BY DEF StepInv
  <2> QED BY <2>1, <2>2, <2>3, OriginalsStand
<1>2. CASE \/ \E to \in Versions \cup {None} : Begin(to)
           \/ DropDesc \/ DropList \/ DropDir \/ DropDirFails \/ WriteDesc \/ WriteList \/ TxStops
  <2>1. UNCHANGED <<saved, owed, live, desk>>
    BY <1>2 DEF Begin, DropDesc, DropList, DropDir, DropDirFails, WriteDesc, WriteList, TxStops
  <2> QED BY <2>1, OriginalsStand
<1> QED BY <1>1, <1>2 DEF Transaction

\* What a review writes over, when a person wrote it, it holds a copy of.
LEMMA OwingHeld ==
  ASSUME TypeOK, OriginalInv, desk.step \in {"swap", "edit"},
         owed' \subseteq Owing(desk.file), UNCHANGED saved,
         desk'.step \notin {"swap", "edit"}
  PROVE  OriginalInv'
<1>1. ASSUME NEW o \in owed' PROVE Held(o[1], o[2])
  <2>1. CASE o \in owed
    BY <2>1 DEF OriginalInv, OriginalsKept, Held
  <2>2. CASE o \in {desk.file} \X ({live[desk.file]} \cap AdminBytes)
    BY <2>2 DEF OriginalInv
  <2> QED BY <1>1, <2>1, <2>2 DEF Owing
<1> QED BY <1>1 DEF OriginalInv, OriginalsKept, Held

LEMMA OriginalsByDesk ==
  ASSUME TypeOK, StepInv, OriginalInv, Desk PROVE OriginalInv'
<1> USE NothingKnown DEF files, records, ghosts
<1>1. CASE \/ \E verb \in Verbs : Open(verb)
           \/ \E f \in desk.todo : Agree(f)
           \/ ReadRecord \/ RenameRecord \/ StagingFails \/ Discard \/ Close \/ DeskDies
  <2>1. UNCHANGED <<saved, owed>>
    BY <1>1 DEF Open, Agree, ReadRecord, RenameRecord, StagingFails, Discard, Close, DeskDies
  <2>2. desk'.step \notin {"swap", "edit"}
    BY <1>1 DEF Open, Agree, ReadRecord, RenameRecord, StagingFails, Discard, Close, DeskDies,
                Step, Go, AfterRecord
  <2> QED BY <2>1, <2>2, OriginalsStand
<1>2. CASE SaveOriginal
  <2> DEFINE f == desk.file
  <2>1. /\ f \in Files /\ UNCHANGED <<live, owed>> /\ live[f] \in Contents \cup {None}
    BY <1>2 DEF SaveOriginal, StepInv, TypeOK, FilesOK, Bytes
  <2>2. CASE live[f] = None
    <3> USE <2>2
    <3>1. UNCHANGED saved /\ Step(AfterSave)
      BY <1>2 DEF SaveOriginal
    <3>2. desk'.file = f
      BY <3>1 DEF Step, Go, AfterSave
    <3>3. live'[f] \notin AdminBytes
      BY <2>1, <2>2, Shipping
    <3> QED BY <2>1, <3>1, <3>3, <3>2, OriginalsStand
  <2>3. CASE live[f] # None /\ Len(saved[f]) < MaxSaves
    <3>1. /\ saved' = [saved EXCEPT ![f] = SaveBeside(f, live[f])] /\ Step(AfterSave)
      BY <1>2, <2>3 DEF SaveOriginal
    <3>2. desk'.file = f
      BY <3>1 DEF Step, Go, AfterSave
    <3>3. live[f] \in Contents \cup {Torn}
      BY <2>1, <2>3
    <3>4. /\ \A g \in Files : \A b : Held(g, b) => Held(g, b)'
          /\ \E i \in DOMAIN saved'[f] : saved'[f][i] = live[f]
      BY <2>1, <3>1, <3>3, CopiesStay
    <3>5. OriginalsKept'
      BY <2>1, <3>4 DEF OriginalInv, OriginalsKept, Held, TypeOK, GhostsOK
    <3> QED BY <2>1, <3>2, <3>4, <3>5 DEF OriginalInv, Held
  <2>4. CASE ~(live[f] = None) /\ ~(live[f] # None /\ Len(saved[f]) < MaxSaves)
    <3>1. desk' = Away /\ UNCHANGED saved
      BY <1>2, <2>4 DEF SaveOriginal
    <3> QED BY <2>1, <3>1, OriginalsStand
  <2> QED BY <2>2, <2>3, <2>4
<1>3. CASE SaveFails
  <2>1. /\ desk.file \in Files /\ UNCHANGED owed /\ desk' = Away
        /\ saved' = [saved EXCEPT ![desk.file] = SaveBeside(desk.file, Torn)]
    BY <1>3 DEF SaveFails, StepInv
  <2>2. \A g \in Files : \A b : Held(g, b) => Held(g, b)'
    BY <2>1, CopiesStay
  <2>3. OriginalsKept'
    BY <2>1, <2>2 DEF OriginalInv, OriginalsKept, Held, TypeOK, GhostsOK
  <2> QED BY <2>1, <2>3 DEF OriginalInv
<1>4. CASE Swap
  <2>1. /\ desk.step = "swap" /\ UNCHANGED saved /\ owed' \subseteq Owing(desk.file)
        /\ desk'.step \in {"away", "walk"}
    BY <1>4 DEF Swap, Owing, Step, Go
  <2> QED BY <2>1, OwingHeld
<1>5. CASE Merge
  <2>1. /\ desk.step = "edit" /\ UNCHANGED saved /\ owed' \subseteq Owing(desk.file)
        /\ desk'.step \in {"record", "walk"}
    BY <1>5 DEF Merge, Edit, Owing, Step, Go
  <2> QED BY <2>1, OwingHeld
<1> QED BY <1>1, <1>2, <1>3, <1>4, <1>5 DEF Desk

LEMMA OriginalStep == TypeOK /\ StepInv /\ OriginalInv /\ [Next]_vars => OriginalInv'
<1> SUFFICES ASSUME TypeOK, StepInv, OriginalInv, [Next]_vars PROVE OriginalInv'
  OBVIOUS
<1>1. ASSUME NEW f \in Editable, NEW b \in AdminBytes, AdminEdits(f, b) PROVE OriginalInv'
  <2>1. /\ f \in Files /\ UNCHANGED <<saved, owed, desk>>
        /\ \A g \in Files : g # f => live'[g] = live[g]
        /\ desk.step \in {"swap", "edit"} => desk.file \in Files /\ desk.file # f
    BY <1>1, ReviewAssumption DEF AdminEdits, ghosts, TypeOK, FilesOK, StepInv
  <2> QED BY <2>1, OriginalsStand
<1>2. CASE UNCHANGED vars
  BY <1>2, OriginalsStand DEF vars, files, ghosts
<1> QED BY <1>1, <1>2, OriginalsByTx, OriginalsByDesk DEF Next

\* Whatever a person wrote and an accept or an editor of a merge wrote over is
\* whole in a .pacorig copy for good, whatever dies, fails or is installed in
\* between (ops/config.rs, save_original before the rename and the editor).
THEOREM OriginalsAreKept == Spec => []OriginalsKept
<1>1. Init => TypeOK /\ StepInv /\ OriginalInv
  BY Start DEF Inv
<1>2. OriginalInv => OriginalsKept
  BY DEF OriginalInv
<1> QED BY <1>1, <1>2, TypeStep, OriginalStep, PTL DEF Spec

=============================================================================
