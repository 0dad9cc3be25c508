--------------------------- MODULE InstallTxProofs ---------------------------
(***************************************************************************)
(* What InstallTx keeps for every catalogue of packages, proved with TLAPS. *)
(***************************************************************************)
EXTENDS InstallTx, TLAPS

InHand == {"unpack", "prune", "register", "desc", "list"}
Working == InHand \cup {"install"}

\* What the code's control flow says of the variables in each phase: the
\* archive in hand is one of the batch's, its record is away and then back, and
\* nothing of a transaction is left once it is over.
ControlInv ==
  /\ phase \in InHand => cur \in todo
  /\ phase = "desc" => rel[Name[cur]] = NotInstalled
  /\ phase = "list" => rel[Name[cur]] = cur /\ list[Name[cur]] = {}
  /\ \A a \in Packages : rel[a] = NotInstalled => list[a] = {}
  /\ phase = "unregister" => cur \in Releases /\ Name[cur] \in leaving
  /\ phase \in {"retire", "unregister"} => leaving \subseteq Installed
  /\ phase \notin Working => todo = {}
  /\ phase = "idle" => plan = {} /\ replacing = {} /\ leaving = {}
  /\ phase \in {"idle", "pre"} => fresh = {} /\ held = {} /\ takes = {}

TypeInv == TypeOK /\ ControlInv

LEMMA TypeInit == Init => TypeInv
BY ReleaseAssumption, ContentAssumption, MarkerAssumption
DEF Init, TypeInv, TypeOK, ControlInv, Phases, Stored, InHand, Working

\* A failed extraction, with its witnesses in one place.
LEMMA HowUnpackFails ==
  ASSUME UnpackFails
  PROVE  \E f \in Ships[cur], S \in SUBSET Ships[cur],
            left \in {"untouched", "gone", "torn"}, undone \in BOOLEAN :
           cur \in Releases /\ UnpackStops(S, f, left, undone)
<1>1. PICK f \in Ships[cur] :
        \E S \in SUBSET (Ships[cur] \ {f}) :
          \E left \in {"untouched", "gone", "torn"}, undone \in BOOLEAN :
            UnpackStops(S, f, left, undone)
  BY DEF UnpackFails
<1>2. PICK S \in SUBSET (Ships[cur] \ {f}) :
        \E left \in {"untouched", "gone", "torn"}, undone \in BOOLEAN :
          UnpackStops(S, f, left, undone)
  BY <1>1
<1>3. PICK left \in {"untouched", "gone", "torn"}, undone \in BOOLEAN :
        UnpackStops(S, f, left, undone)
  BY <1>2
<1>4. S \in SUBSET Ships[cur] /\ cur \in Releases
  BY DEF UnpackFails
<1> QED BY <1>3, <1>4

\* Every action keeps every variable within its type.
LEMMA TypeStep == TypeInv /\ [Next]_vars => TypeInv'
<1> SUFFICES ASSUME TypeInv, [Next]_vars PROVE TypeInv'
  OBVIOUS
<1> USE ReleaseAssumption, ContentAssumption, MarkerAssumption
    DEF TypeInv, TypeOK, ControlInv, InHand, Working, Installed
<1>1. ASSUME NEW S \in SUBSET Releases, Resolve(S) PROVE TypeInv'
  <2>1. replacing' \subseteq Packages \X Packages
    BY <1>1 DEF Resolve, Replaced, Names
  <2> QED BY <1>1, <2>1 DEF Resolve, files, db, call, inhand, ghosts, Phases
<1>2. ASSUME NEW r \in Releases, Rollback(r) PROVE TypeInv'
  BY <1>2 DEF Rollback, files, db, call, inhand, ghosts, Phases
<1>3. CASE StopBeforeWriting
  BY <1>3 DEF StopBeforeWriting, EndTx, files, db, ghosts, Phases
<1>4. CASE StartRepoBatch
  BY <1>4 DEF StartRepoBatch, files, db, tx, inhand, ghosts, Phases
<1>5. CASE CheckConflicts
  <2>1. held' \subseteq batch /\ takes' \subseteq batch \X Packages
    BY <1>5 DEF CheckConflicts, Conflicted, Handovers
  <2> QED BY <1>5, <2>1 DEF CheckConflicts, files, db, tx, inhand, ghosts, Phases
<1>6. ASSUME NEW r \in batch, HoldAlong(r) PROVE TypeInv'
  BY <1>6 DEF HoldAlong, files, db, tx, inhand, ghosts, Phases
<1>7. CASE SettleHeld
  BY <1>7 DEF SettleHeld, files, db, call, ghosts, Phases
<1>8. ASSUME NEW r \in todo, Prepare(r) PROVE TypeInv'
  BY <1>8 DEF Prepare, Spared, files, db, tx, call, ghosts, Phases
<1>9. CASE Unpack
  BY <1>9 DEF Unpack, db, tx, call, ghosts, Phases, Stored
<1>10. CASE UnpackFails
  <2>1. PICK f \in Ships[cur], S \in SUBSET Ships[cur],
             left \in {"untouched", "gone", "torn"}, undone \in BOOLEAN :
               cur \in Releases /\ UnpackStops(S, f, left, undone)
    BY <1>10, HowUnpackFails
  <2>2. lost' \subseteq Releases
    BY <2>1 DEF UnpackStops, CutOff, Awaited
  <2> QED BY <2>1, <2>2 DEF UnpackStops, EndTx, db, Owners, Phases, Stored
<1>11. CASE Prune
  BY <1>11 DEF Prune, RetirePaths, db, tx, call, inhand, Phases, Stored
<1>12. CASE Register \/ WriteDesc \/ WriteList
  <2>1. ReadBack \in [Paths -> Stored]
    BY DEF ReadBack, Stored
  <2>2. CASE Register
    BY <2>2 DEF Register, Forget, files, tx, call, inhand, ghosts, Phases, Stored
  <2>3. CASE WriteDesc
    BY <2>1, <2>3 DEF WriteDesc, files, tx, call, inhand, Phases
  <2>4. CASE WriteList
    BY <2>4 DEF WriteList, files, call, Phases
  <2> QED BY <1>12, <2>2, <2>3, <2>4
<1>13. ASSUME NEW r \in later, SkipAur(r) \/ BuildFails(r) \/ Builds(r) PROVE TypeInv'
  BY <1>13 DEF SkipAur, BuildFails, Builds, Built, files, db, call, inhand, ghosts, Phases
<1>14. CASE Finish
  BY <1>14 DEF Finish, EndTx, files, db, ghosts, Phases
<1>15. CASE FinishRetiring
  BY <1>15 DEF FinishRetiring, Superseded, Installed, files, db, call, inhand, ghosts, Phases
<1>16. ASSUME NEW S \in SUBSET Packages, Uninstall(S) PROVE TypeInv'
  BY <1>16 DEF Uninstall, files, db, call, inhand, ghosts, Phases
<1>17. ASSUME NEW a \in leaving, RetireFiles(a) PROVE TypeInv'
  <2>1. rel[a] \in Releases
    BY <1>17 DEF RetireFiles, DependentsFirst
  <2> QED BY <1>17, <2>1 DEF RetireFiles, RetirePaths, db, tx, call, Phases, Stored
<1>18. CASE Unregister
  BY <1>18 DEF Unregister, Forget, EndTx, files, call, Phases, Stored
<1>19. CASE Interrupted
  <2>1. lost' \subseteq Releases
    BY <1>19 DEF Interrupted, CutOff, Awaited
  <2> QED BY <1>19, <2>1 DEF Interrupted, EndTx, files, db, Phases
<1>20. ASSUME NEW p \in Paths, NEW b \in AdminBytes, AdminEdits(p, b) PROVE TypeInv'
  BY <1>20 DEF AdminEdits, db, tx, call, inhand, ghosts, Phases, Stored
<1>21. CASE UNCHANGED vars
  BY <1>21 DEF vars, files, db, tx, call, inhand, ghosts
<1>22. ASSUME NEW part \in SUBSET Paths, RecordStops(part) PROVE TypeInv'
  <2>1. lost' \subseteq Releases
    BY <1>22 DEF RecordStops, CutOff, Awaited
  <2>2. phase = "list" => rel[Name[cur]] # NotInstalled
    OBVIOUS
  <2> QED BY <1>22, <2>1, <2>2 DEF RecordStops, EndTx, files, Phases
<1> QED
  BY <1>1, <1>2, <1>3, <1>4, <1>5, <1>6, <1>7, <1>8, <1>9, <1>10, <1>11, <1>12,
     <1>13, <1>14, <1>15, <1>16, <1>17, <1>18, <1>19, <1>20, <1>21, <1>22 DEF Next

\* Type correctness of every reachable state, for every catalogue.
THEOREM TypeCorrect == Spec => []TypeOK
<1>1. TypeInv => TypeOK
  BY DEF TypeInv
<1> QED BY TypeInit, TypeStep, <1>1, PTL DEF Spec

-----------------------------------------------------------------------------
(* One owner per path.                                                       *)

\* A plan names each package once, replaces only packages outside itself, and
\* what it has installed so far is registered as the plan's release, unless one
\* build follows another and it is being registered again.
PlanInv ==
  /\ \A r, s \in plan : Name[r] = Name[s] => r = s
  /\ \A e \in replacing : e[1] \in Names(plan) /\ e[2] \notin Names(plan)
  /\ phase \notin {"retire", "unregister"} =>
       \A a \in fresh : \E r \in plan :
         /\ Name[r] = a
         /\ \/ phase \in {"desc", "list"} /\ cur = r
            \/ rel[a] = r /\ list[a] = Ships[r]

\* While what is held back is being settled: an archive not held so far meets
\* no owner of its paths but packages that hand them over in this batch.
HoldInv ==
  phase = "hold" /\ mishaps = 0 =>
    \A r \in batch \ held :
      /\ \A p \in Ships[r] : \A b \in Owners(p) \ Exempt(r) :
           <<r, b>> \in takes /\ Donates(b, p)
      /\ \A s \in batch \ {r} : Ships[r] \cap Ships[s] = {}

\* While the batch goes in: the same, with the donors still to be installed.
TodoInv ==
  phase \in Working /\ mishaps = 0 =>
    \A r \in todo :
      /\ \A p \in Ships[r] : \A b \in Owners(p) \ Exempt(r) :
           \E s \in todo : Name[s] = b /\ p \notin Ships[s]
      /\ \A s \in todo \ {r} : Ships[r] \cap Ships[s] = {}

\* The two ways in which a path is listed twice for a while: its old owner is
\* replaced and will be retired, or will be upgraded to a release without it.
Handed(new, old, p) ==
  \/ /\ <<new, old>> \in replacing /\ new \in fresh
     /\ phase \in {"retire", "unregister"} => old \in leaving
  \/ \E s \in todo : Name[s] = old /\ p \notin Ships[s]

SharedInv ==
  mishaps = 0 =>
    \A a, b \in Packages : a # b =>
      \A p \in Files(a) \cap Files(b) :
        phase # "idle" /\ (Handed(a, b, p) \/ Handed(b, a, p))

OwnerInv == TypeInv /\ PlanInv /\ HoldInv /\ TodoInv /\ SharedInv

LEMMA OwnerInit == Init => OwnerInv
BY TypeInit
DEF Init, OwnerInv, PlanInv, HoldInv, TodoInv, SharedInv, Files, InHand, Working

\* The plan is fixed when the transaction starts, and its packages are
\* registered as the releases it names.
LEMMA PlanStep ==
  ASSUME TypeInv, PlanInv, [Next]_vars
  PROVE  PlanInv'
<1> USE DEF TypeInv, TypeOK, ControlInv, PlanInv, InHand
<1>1. ASSUME NEW S \in SUBSET Releases, Resolve(S) PROVE PlanInv'
  <2>1. PICK draw : replacing' = Replaced(S, draw)
    BY <1>1 DEF Resolve
  <2>2. \A e \in replacing' : e[1] \in Names(S) /\ e[2] \notin Names(S)
    BY <2>1 DEF Replaced
  <2> QED BY <1>1, <2>2 DEF Resolve, Resolvable, Names, tx
<1>2. ASSUME NEW r \in Releases, Rollback(r) PROVE PlanInv'
  BY <1>2 DEF Rollback
<1>3. CASE \/ StopBeforeWriting \/ Finish \/ Interrupted
           \/ \E part \in SUBSET Paths : RecordStops(part)
  BY <1>3 DEF StopBeforeWriting, Finish, Interrupted, RecordStops, EndTx
<1>4. CASE UnpackFails
  BY <1>4, HowUnpackFails DEF UnpackStops, EndTx
<1>5. CASE Register \/ WriteDesc
  <2>1. cur \in plan /\ Name[cur] \in Packages
    BY <1>5, ReleaseAssumption DEF Register, WriteDesc
  <2>2. /\ \A a \in Packages \ {Name[cur]} : rel'[a] = rel[a] /\ list'[a] = list[a]
        /\ plan' = plan /\ replacing' = replacing /\ fresh' = fresh /\ cur' = cur
        /\ phase \in {"register", "desc"} /\ phase' \in {"desc", "list"}
    BY <1>5 DEF Register, WriteDesc, Forget, tx, inhand
  <2>3. \A a \in fresh : \E r \in plan :
          Name[r] = a /\ (cur = r \/ (rel'[a] = r /\ list'[a] = Ships[r]))
    <3> SUFFICES ASSUME NEW a \in fresh, a # Name[cur]
                 PROVE  \E r \in plan : Name[r] = a /\ rel'[a] = r /\ list'[a] = Ships[r]
      BY <2>1
    <3> QED BY <2>2
  <2> QED BY <2>2, <2>3 DEF Names
<1>10. CASE WriteList
  <2>1. cur \in plan /\ Name[cur] \in Packages /\ phase = "list" /\ rel[Name[cur]] = cur
    BY <1>10, ReleaseAssumption DEF WriteList
  <2>2. /\ rel' = rel /\ list' = [list EXCEPT ![Name[cur]] = Ships[cur]]
        /\ fresh' = fresh \cup {Name[cur]} /\ plan' = plan /\ replacing' = replacing
    BY <1>10 DEF WriteList
  <2>3. \A a \in fresh' : \E r \in plan : Name[r] = a /\ rel'[a] = r /\ list'[a] = Ships[r]
    <3> SUFFICES ASSUME NEW a \in fresh'
                 PROVE  \E r \in plan : Name[r] = a /\ rel'[a] = r /\ list'[a] = Ships[r]
      OBVIOUS
    <3>1. CASE a = Name[cur]
      BY <2>1, <2>2, <3>1
    <3>2. CASE a # Name[cur]
      BY <2>1, <2>2, <3>2
    <3> QED BY <3>1, <3>2
  <2> QED BY <2>2, <2>3 DEF Names
<1>6. CASE Unregister
  BY <1>6 DEF Unregister, EndTx, Names
<1>7. CASE FinishRetiring \/ \E S \in SUBSET Packages : Uninstall(S)
  BY <1>7 DEF FinishRetiring, Uninstall, Names
<1>8. ASSUME NEW a \in leaving, RetireFiles(a) PROVE PlanInv'
  BY <1>8 DEF RetireFiles, tx, db, Names
<1>9. CASE \/ StartRepoBatch \/ CheckConflicts \/ SettleHeld \/ Unpack \/ Prune
           \/ \E r \in batch : HoldAlong(r)
           \/ \E r \in todo : Prepare(r)
           \/ \E r \in later : SkipAur(r) \/ BuildFails(r) \/ Builds(r)
           \/ \E q \in Paths, b \in AdminBytes : AdminEdits(q, b)
           \/ UNCHANGED vars
  <2>1. /\ plan' = plan /\ replacing' = replacing /\ fresh' = fresh
        /\ rel' = rel /\ list' = list
        /\ phase' \in {"retire", "unregister"} <=> phase \in {"retire", "unregister"}
        /\ phase \in {"desc", "list"} => phase' = phase /\ cur' = cur
    BY <1>9 DEF StartRepoBatch, CheckConflicts, SettleHeld, Unpack, Prune, HoldAlong,
       Prepare, SkipAur, BuildFails, Builds, AdminEdits, vars, tx, db, inhand
  <2> QED BY <2>1 DEF Names
<1> QED
  BY <1>1, <1>2, <1>3, <1>4, <1>5, <1>6, <1>7, <1>8, <1>9, <1>10 DEF Next

\* CheckConflicts leaves out every archive with a path somebody keeps; the
\* others meet only donors.  A path has one owner besides those exempt, because
\* a path listed twice at that moment is listed by a package this transaction
\* installed and by one it replaces, and neither is a donor.
LEMMA HoldStep ==
  ASSUME TypeInv, PlanInv, HoldInv, SharedInv, [Next]_vars
  PROVE  HoldInv'
<1> USE DEF HoldInv, TypeInv, TypeOK, ControlInv, PlanInv
<1>1. CASE CheckConflicts
  <2> SUFFICES ASSUME mishaps = 0, NEW r \in batch, r \notin held'
               PROVE  /\ \A p \in Ships[r] : \A b \in Owners(p) \ Exempt(r) :
                           <<r, b>> \in takes' /\ Donates(b, p)
                      /\ \A s \in batch \ {r} : Ships[r] \cap Ships[s] = {}
    BY <1>1 DEF CheckConflicts, files, db, tx, inhand, ghosts, Owners, Files, Exempt,
       Donates, Installed
  <2>1. PICK draw \in Draws(Rivals) : held' = Conflicted(draw) /\ takes' = Handovers(draw)
    BY <1>1 DEF CheckConflicts
  <2>2. \A s \in batch \ {r} : Ships[r] \cap Ships[s] = {}
    BY <2>1 DEF Conflicted
  <2>3. ASSUME NEW p \in Ships[r], NEW b \in Owners(p) \ Exempt(r)
        PROVE  <<r, b>> \in takes' /\ Donates(b, p)
    <3> DEFINE d == Blamed(r, p, draw)
    <3>1. p \in Contested(r)
      BY <2>3 DEF Contested
    <3>2. d \in Owners(p) \ Exempt(r)
      <4>1. Owners(p) \ Exempt(r) \in Rivals
        BY <3>1 DEF Rivals
      <4> QED BY <2>1, <4>1 DEF Draws, Blamed
    <3>3. Donates(d, p)
      BY <2>1, <3>1 DEF Conflicted
    <3>4. <<r, d>> \in takes'
      BY <2>1, <3>1, <3>2, <3>3 DEF Handovers, Owners
    <3>5. b = d
      <4> SUFFICES ASSUME b # d PROVE FALSE
        OBVIOUS
      <4>1. p \in Files(b) \cap Files(d) /\ b \in Packages /\ d \in Packages
        BY <2>3, <3>2 DEF Owners
      <4>2. Handed(b, d, p) \/ Handed(d, b, p)
        BY <4>1 DEF SharedInv
      <4>3. todo = {}
        BY <1>1 DEF CheckConflicts, InHand, Working
      <4>4. PICK s \in batch : Name[s] = d /\ p \notin Ships[s]
        BY <3>3 DEF Donates
      <4>5. d \in Names(plan)
        BY <4>4 DEF Names
      <4>6. <<d, b>> \in replacing /\ d \in fresh
        BY <4>2, <4>3, <4>5 DEF Handed
      <4>7. rel[d] = s /\ list[d] = Ships[s]
        BY <1>1, <4>4, <4>6 DEF CheckConflicts
      <4> QED BY <4>1, <4>4, <4>7 DEF Files
    <3> QED BY <3>3, <3>4, <3>5
  <2> QED BY <2>2, <2>3
<1>2. ASSUME NEW r \in batch, HoldAlong(r) PROVE HoldInv'
  BY <1>2 DEF HoldAlong, files, db, tx, inhand, ghosts, Owners, Files, Exempt, Donates,
     Installed
<1>3. CASE UNCHANGED vars
  BY <1>3 DEF vars, db, tx, call, ghosts, Owners, Files, Exempt, Donates, Installed
<1>4. ASSUME NEW p \in Paths, NEW b \in AdminBytes, AdminEdits(p, b) PROVE HoldInv'
  BY <1>4 DEF AdminEdits, db, tx, call, ghosts, Owners, Files, Exempt, Donates, Installed
<1>5. CASE UnpackFails
  BY <1>5, HowUnpackFails DEF UnpackStops, EndTx
<1>6. CASE \/ StopBeforeWriting \/ StartRepoBatch \/ SettleHeld \/ Unpack \/ Prune
           \/ Register \/ WriteDesc \/ WriteList \/ Finish \/ FinishRetiring
           \/ Unregister \/ Interrupted
           \/ \E part \in SUBSET Paths : RecordStops(part)
           \/ \E S \in SUBSET Releases : Resolve(S)
           \/ \E r \in Releases : Rollback(r)
           \/ \E r \in todo : Prepare(r)
           \/ \E r \in later : SkipAur(r) \/ BuildFails(r) \/ Builds(r)
           \/ \E S \in SUBSET Packages : Uninstall(S)
           \/ \E a \in leaving : RetireFiles(a)
  <2>1. phase' # "hold"
    BY <1>6 DEF StopBeforeWriting, StartRepoBatch, SettleHeld, Unpack, Prune, Register,
       WriteDesc, WriteList, RecordStops,
       Finish, FinishRetiring, Unregister, Interrupted, Resolve, Rollback, Prepare,
       SkipAur, BuildFails, Builds, Uninstall, RetireFiles, EndTx
  <2> QED BY <2>1
<1> QED
  BY <1>1, <1>2, <1>3, <1>4, <1>5, <1>6 DEF Next

\* The archives of a batch go in one by one: none of those left meets the files
\* of the one just registered, and a donor stays in todo until it is its turn.
LEMMA TodoStep ==
  ASSUME TypeInv, HoldInv, TodoInv, [Next]_vars
  PROVE  TodoInv'
<1> USE DEF TypeInv, TypeOK, ControlInv, TodoInv, InHand, Working
<1>1. CASE SettleHeld
  <2> SUFFICES ASSUME mishaps = 0, NEW r \in batch \ held
               PROVE  /\ \A p \in Ships[r] : \A b \in Owners(p) \ Exempt(r) :
                           \E s \in batch \ held : Name[s] = b /\ p \notin Ships[s]
                      /\ \A s \in (batch \ held) \ {r} : Ships[r] \cap Ships[s] = {}
    BY <1>1 DEF SettleHeld, files, db, call, ghosts, Owners, Files, Exempt
  <2>1. ASSUME NEW p \in Ships[r], NEW b \in Owners(p) \ Exempt(r)
        PROVE  \E s \in batch \ held : Name[s] = b /\ p \notin Ships[s]
    <3>1. <<r, b>> \in takes /\ Donates(b, p)
      BY <1>1 DEF HoldInv, SettleHeld
    <3>2. PICK s \in batch : Name[s] = b /\ p \notin Ships[s]
      BY <3>1 DEF Donates
    <3>3. s \notin held
      BY <1>1, <3>1, <3>2 DEF SettleHeld, GoesAlong
    <3> QED BY <3>2, <3>3
  <2>2. \A s \in (batch \ held) \ {r} : Ships[r] \cap Ships[s] = {}
    BY <1>1 DEF HoldInv, SettleHeld
  <2> QED BY <2>1, <2>2
<1>2. CASE WriteList
  <2> SUFFICES ASSUME mishaps = 0, NEW r \in todo \ {cur}
               PROVE  /\ \A p \in Ships[r] : \A b \in Owners(p)' \ Exempt(r) :
                           \E s \in todo \ {cur} : Name[s] = b /\ p \notin Ships[s]
                      /\ \A s \in (todo \ {cur}) \ {r} : Ships[r] \cap Ships[s] = {}
    BY <1>2 DEF WriteList, Exempt
  <2>1. ASSUME NEW p \in Ships[r], NEW b \in Owners(p)' \ Exempt(r)
        PROVE  \E s \in todo \ {cur} : Name[s] = b /\ p \notin Ships[s]
    <3>1. cur \in todo /\ phase = "list" /\ b \in Packages
      BY <1>2 DEF WriteList, Owners
    <3>2. b # Name[cur]
      <4> SUFFICES ASSUME b = Name[cur] PROVE FALSE
        OBVIOUS
      <4>1. p \in Ships[cur]
        BY <1>2, <2>1, <3>1, MarkerAssumption DEF WriteList, Owners, Files
      <4> QED BY <3>1, <4>1
    <3>3. b \in Owners(p)
      BY <1>2, <2>1, <3>1, <3>2 DEF WriteList, Owners, Files
    <3> QED BY <3>1, <3>2, <3>3
  <2>2. \A s \in (todo \ {cur}) \ {r} : Ships[r] \cap Ships[s] = {}
    BY <1>2 DEF WriteList
  <2> QED BY <2>1, <2>2
<1>3. CASE \/ Unpack \/ Prune
           \/ \E r \in todo : Prepare(r)
           \/ \E q \in Paths, b \in AdminBytes : AdminEdits(q, b)
           \/ UNCHANGED vars
  <2>1. /\ todo' = todo /\ rel' = rel /\ list' = list /\ replacing' = replacing /\ mishaps' = mishaps
        /\ phase' \in Working => phase \in Working
    BY <1>3 DEF Unpack, Prune, Prepare, AdminEdits, vars, tx, db, inhand, ghosts
  <2> QED BY <2>1 DEF Owners, Files, Exempt
<1>4. CASE UnpackFails
  BY <1>4, HowUnpackFails DEF UnpackStops, EndTx
<1>6. CASE Register \/ WriteDesc
  <2>1. /\ todo' = todo /\ replacing' = replacing /\ mishaps' = mishaps
        /\ phase \in {"register", "desc"} /\ phase' \in {"desc", "list"} /\ cur \in Releases
    BY <1>6 DEF Register, WriteDesc, tx, inhand, ghosts
  <2>2. \A a \in Packages : Files(a)' \subseteq Files(a)
    <3>1. Name[cur] \in Packages
      BY <2>1, ReleaseAssumption
    <3>2. CASE Register
      BY <3>1, <3>2 DEF Register, Forget, Files
    <3>3. CASE WriteDesc
      BY <3>1, <3>3 DEF WriteDesc, Files
    <3> QED BY <1>6, <3>2, <3>3
  <2> QED BY <2>1, <2>2 DEF Owners, Exempt
<1>5. CASE \/ StopBeforeWriting \/ StartRepoBatch \/ CheckConflicts
           \/ Finish \/ FinishRetiring \/ Unregister \/ Interrupted
           \/ \E part \in SUBSET Paths : RecordStops(part)
           \/ \E S \in SUBSET Releases : Resolve(S)
           \/ \E r \in Releases : Rollback(r)
           \/ \E r \in batch : HoldAlong(r)
           \/ \E r \in later : SkipAur(r) \/ BuildFails(r) \/ Builds(r)
           \/ \E S \in SUBSET Packages : Uninstall(S)
           \/ \E a \in leaving : RetireFiles(a)
  <2>1. phase' \notin Working
    BY <1>5 DEF StopBeforeWriting, StartRepoBatch, CheckConflicts, Finish,
       FinishRetiring, Unregister, Interrupted, RecordStops, Resolve, Rollback, HoldAlong,
       SkipAur, BuildFails, Builds, Uninstall, RetireFiles, EndTx
  <2> QED BY <2>1
<1> QED
  BY <1>1, <1>2, <1>3, <1>4, <1>5, <1>6 DEF Next

\* A path gets a second owner only in Register, and then the first one either
\* is replaced or still has its upgrade to come; by the time the transaction
\* ends every upgrade is in and every replaced package is gone.
LEMMA SharedStep ==
  ASSUME TypeInv, TodoInv, SharedInv, [Next]_vars
  PROVE  SharedInv'
<1> USE DEF TypeInv, TypeOK, ControlInv, InHand, Working
<1>1. CASE WriteList
  <2>0. PICK new \in Packages : new = Name[cur]
    BY <1>1, ReleaseAssumption DEF WriteList
  <2>1. /\ cur \in todo /\ cur \in Releases /\ phase = "list" /\ rel[new] = cur
        /\ todo' = todo \ {cur} /\ rel' = rel /\ list' = [list EXCEPT ![new] = Ships[cur]]
        /\ replacing' = replacing /\ fresh' = fresh \cup {new} /\ mishaps' = mishaps
        /\ phase' \in {"next", "install"}
    BY <1>1, <2>0 DEF WriteList
  <2>2. SUFFICES ASSUME mishaps = 0,
                        NEW x \in Packages, NEW y \in Packages, x # y,
                        NEW p \in Files(x)' \cap Files(y)'
                 PROVE  Handed(x, y, p)' \/ Handed(y, x, p)'
    BY <2>1 DEF SharedInv
  <2>3. ASSUME NEW a \in Packages, a # new PROVE Files(a)' = Files(a)
    BY <2>1, <2>3 DEF Files
  <2>4. Files(new)' = Ships[cur]
    BY <2>1, MarkerAssumption DEF Files
  <2>5. ASSUME NEW a \in Packages, NEW b \in Packages, b # new, Handed(a, b, p)
        PROVE  Handed(a, b, p)'
    BY <2>0, <2>1, <2>5 DEF Handed
  <2>6. ASSUME NEW b \in Packages, b # new, p \in Files(b), p \in Ships[cur]
        PROVE  Handed(new, b, p)'
    <3>1. b \in Owners(p)
      BY <2>6 DEF Owners
    <3>2. CASE b \in Exempt(cur)
      BY <2>0, <2>1, <2>6, <3>2 DEF Exempt, Handed
    <3>3. CASE b \notin Exempt(cur)
      <4>1. PICK s \in todo : Name[s] = b /\ p \notin Ships[s]
        BY <2>1, <2>2, <2>6, <3>1, <3>3 DEF TodoInv, Working
      <4> QED BY <2>0, <2>1, <2>6, <4>1 DEF Handed
    <3> QED BY <3>2, <3>3
  <2>7. CASE x = new
    BY <2>2, <2>3, <2>4, <2>6, <2>7
  <2>8. CASE y = new
    BY <2>2, <2>3, <2>4, <2>6, <2>8
  <2>9. CASE x # new /\ y # new
    <3>1. Handed(x, y, p) \/ Handed(y, x, p)
      BY <2>2, <2>3, <2>9 DEF SharedInv
    <3> QED BY <2>5, <2>9, <3>1
  <2> QED BY <2>7, <2>8, <2>9
<1>2. CASE \/ StartRepoBatch \/ CheckConflicts \/ SettleHeld \/ Unpack \/ Prune
           \/ \E r \in batch : HoldAlong(r)
           \/ \E r \in todo : Prepare(r)
           \/ \E r \in later : SkipAur(r) \/ BuildFails(r) \/ Builds(r)
           \/ \E a \in leaving : RetireFiles(a)
           \/ \E q \in Paths, b \in AdminBytes : AdminEdits(q, b)
           \/ UNCHANGED vars
  <2>1. /\ rel' = rel /\ replacing' = replacing /\ fresh' = fresh /\ leaving' = leaving
        /\ list' = list
        /\ mishaps' = mishaps /\ todo \subseteq todo'
        /\ phase' = "idle" => phase = "idle"
        /\ phase' \in {"retire", "unregister"} => phase \in {"retire", "unregister"}
    BY <1>2 DEF StartRepoBatch, CheckConflicts, SettleHeld, Unpack, Prune, HoldAlong,
       Prepare, SkipAur, BuildFails, Builds, RetireFiles, AdminEdits, vars, tx, db,
       inhand, ghosts
  <2> QED BY <2>1 DEF SharedInv, Files, Handed
<1>9. CASE Register \/ WriteDesc
  <2>1. /\ replacing' = replacing /\ fresh' = fresh /\ leaving' = leaving /\ todo' = todo
        /\ mishaps' = mishaps /\ phase' \in {"desc", "list"} /\ cur \in Releases
        /\ phase \in {"register", "desc"}
    BY <1>9 DEF Register, WriteDesc, tx, inhand, ghosts
  <2>2. \A a \in Packages : Files(a)' \subseteq Files(a)
    <3>1. Name[cur] \in Packages
      BY <2>1, ReleaseAssumption
    <3>2. CASE Register
      BY <3>1, <3>2 DEF Register, Forget, Files, TypeInv, TypeOK, ControlInv
    <3>3. CASE WriteDesc
      BY <3>1, <3>3 DEF WriteDesc, Files, TypeInv, TypeOK, ControlInv
    <3> QED BY <1>9, <3>2, <3>3
  <2> QED BY <2>1, <2>2 DEF SharedInv, Handed
<1>3. CASE \/ \E S \in SUBSET Releases : Resolve(S)
           \/ \E r \in Releases : Rollback(r)
           \/ \E S \in SUBSET Packages : Uninstall(S)
  <2>1. phase = "idle" /\ rel' = rel /\ list' = list /\ mishaps' = mishaps
    BY <1>3 DEF Resolve, Rollback, Uninstall, db, ghosts
  <2> QED BY <2>1 DEF SharedInv, Files
<1>4. CASE StopBeforeWriting
  <2>1. /\ fresh = {} /\ todo = {} /\ rel' = rel /\ list' = list /\ mishaps' = mishaps
    BY <1>4 DEF StopBeforeWriting, db, ghosts
  <2> QED BY <2>1 DEF SharedInv, Files, Handed
<1>5. CASE Finish
  <2>1. /\ Superseded = {} /\ todo = {} /\ rel' = rel /\ list' = list /\ mishaps' = mishaps
    BY <1>5 DEF Finish, db, ghosts
  <2>2. ASSUME NEW a \in Packages, NEW b \in Packages, NEW p \in Files(b)
        PROVE  ~Handed(a, b, p)
    BY <2>1 DEF Superseded, Installed, Files, Handed
  <2> QED BY <2>1, <2>2 DEF SharedInv, Files
<1>6. CASE FinishRetiring
  <2>1. /\ leaving' = Superseded /\ todo = {} /\ todo' = todo /\ rel' = rel
        /\ list' = list /\ replacing' = replacing /\ fresh' = fresh /\ mishaps' = mishaps
        /\ phase' = "retire"
    BY <1>6 DEF FinishRetiring, db, inhand, ghosts
  <2>2. ASSUME NEW a \in Packages, NEW b \in Packages, NEW p \in Files(b),
               Handed(a, b, p)
        PROVE  Handed(a, b, p)'
    BY <2>1, <2>2 DEF Superseded, Installed, Files, Handed
  <2> QED BY <2>1, <2>2 DEF SharedInv, Files
<1>7. CASE Unregister
  <2> DEFINE gone == Name[cur]
  <2>1. /\ phase = "unregister" /\ gone \in leaving /\ gone \in Packages /\ todo = {}
        /\ rel' = [rel EXCEPT ![gone] = NotInstalled] /\ list' = [list EXCEPT ![gone] = {}]
        /\ mishaps' = mishaps
    BY <1>7 DEF Unregister, Forget
  <2>2. SUFFICES ASSUME mishaps = 0,
                        NEW x \in Packages, NEW y \in Packages, x # y,
                        NEW p \in Files(x)' \cap Files(y)'
                 PROVE  phase' # "idle" /\ (Handed(x, y, p)' \/ Handed(y, x, p)')
    BY <2>1 DEF SharedInv
  <2>3. x # gone /\ y # gone /\ p \in Files(x) \cap Files(y)
    BY <2>1, <2>2 DEF Files
  <2>4. Handed(x, y, p) \/ Handed(y, x, p)
    BY <2>2, <2>3 DEF SharedInv
  <2>5. leaving # {gone}
    BY <2>1, <2>3, <2>4 DEF Handed
  <2>6. /\ leaving' = leaving \ {gone} /\ phase' = "retire"
        /\ replacing' = replacing /\ fresh' = fresh
    BY <1>7, <2>5 DEF Unregister
  <2> QED BY <2>1, <2>3, <2>4, <2>6 DEF Handed
<1>8. CASE UnpackFails \/ Interrupted \/ \E part \in SUBSET Paths : RecordStops(part)
  <2>1. mishaps' = mishaps + 1
    BY <1>8, HowUnpackFails DEF UnpackStops, Interrupted, RecordStops
  <2> QED BY <2>1, MarkerAssumption DEF SharedInv
<1> QED
  BY <1>1, <1>2, <1>3, <1>4, <1>5, <1>6, <1>7, <1>8, <1>9 DEF Next

\* No file has two owners once a transaction is over, for every catalogue and
\* every plan, hand-overs and replacements included.
THEOREM OneOwnerOfEveryPath == Spec => []OneOwner
<1>1. OwnerInv /\ [Next]_vars => OwnerInv'
  BY TypeStep, PlanStep, HoldStep, TodoStep, SharedStep DEF OwnerInv
<1>2. OwnerInv => OneOwner
  BY DEF OwnerInv, SharedInv, OneOwner
<1> QED BY OwnerInit, <1>1, <1>2, PTL DEF Spec

-----------------------------------------------------------------------------
(* Every listed file is there.                                               *)

\* What is spared is a file, so once the archive is unpacked every path it ships
\* is one, and prune_stale takes none of them.
UnpackedInv ==
  /\ phase = "unpack" => \A p \in protected : IsFile(p)
  /\ phase \in InHand \ {"unpack"} => \A p \in Ships[cur] : IsFile(p)

PresentInv == TypeInv /\ UnpackedInv /\ FilesPresent

LEMMA PresentInit == Init => PresentInv
BY TypeInit DEF Init, PresentInv, UnpackedInv, FilesPresent, Installed, InHand

LEMMA PresentStep ==
  ASSUME PresentInv, [Next]_vars
  PROVE  UnpackedInv' /\ FilesPresent'
<1> USE ReleaseAssumption, ContentAssumption, MarkerAssumption
    DEF PresentInv, TypeInv, TypeOK, ControlInv, UnpackedInv, FilesPresent, InHand, Working,
        Installed, Files, Owners, IsFile, Stored
<1>1. ASSUME NEW r \in todo, Prepare(r) PROVE UnpackedInv' /\ FilesPresent'
  BY <1>1 DEF Prepare, Spared, files, db, ghosts
<1>2. CASE Unpack
  BY <1>2 DEF Unpack, db, inhand, ghosts
<1>3. CASE UnpackFails
  <2>1. PICK f \in Ships[cur], S \in SUBSET Ships[cur],
             left \in {"untouched", "gone", "torn"}, undone \in BOOLEAN :
               cur \in Releases /\ UnpackStops(S, f, left, undone)
    BY <1>3, HowUnpackFails
  <2>2. phase' = "idle" /\ rel' = rel /\ list' = list
    BY <2>1 DEF UnpackStops, EndTx, db
  <2>3. ASSUME NEW a \in Installed \ suspect', NEW p \in Files(a) PROVE disk'[p] \notin {Absent, Obstacle}
    <3>1. disk[p] \notin {Absent, Obstacle}
      BY <2>1, <2>3 DEF UnpackStops
    <3>2. CASE p = f /\ p \notin S \ protected
      BY <2>1, <2>3, <3>1, <3>2 DEF UnpackStops
    <3>3. CASE p # f \/ p \in S \ protected
      BY <2>1, <2>3, <3>1, <3>3 DEF UnpackStops
    <3> QED BY <3>2, <3>3
  <2> QED BY <2>2, <2>3
<1>4. CASE Prune
  <2>1. PICK b \in Packages : b = Name[cur]
    BY <1>4 DEF Prune
  <2>2. /\ phase = "prune" /\ phase' = "register" /\ cur' = cur /\ cur \in Releases
        /\ rel' = rel /\ list' = list
        /\ suspect' = IF Stale(b) = {} THEN suspect ELSE suspect \cup {b}
        /\ disk' = [p \in Paths |-> IF p \in Stale(b) THEN Absent ELSE disk[p]]
    BY <1>4, <2>1 DEF Prune, RetirePaths, db, inhand
  <2>3. UnpackedInv'
    BY <2>2 DEF Stale
  <2>4. ASSUME NEW a \in Packages, rel[a] # NotInstalled, a \notin suspect',
               NEW p \in list[a]
        PROVE  disk'[p] \notin {Absent, Obstacle}
    <3>1. disk[p] \notin {Absent, Obstacle}
      BY <2>2, <2>4
    <3>2. p \notin Stale(b)
      <4>1. CASE a = b
        BY <2>2, <2>4, <4>1
      <4>2. CASE a # b
        <5>1. a \in Owners(p)
          BY <2>2, <2>4
        <5> QED BY <4>2, <5>1 DEF Stale
      <4> QED BY <4>1, <4>2
    <3> QED BY <2>2, <2>4, <3>1, <3>2
  <2> QED BY <2>2, <2>3, <2>4
<1>5. CASE Register \/ WriteDesc \/ WriteList \/ \E part \in SUBSET Paths : RecordStops(part)
  <2>1. CASE Register
    BY <2>1 DEF Register, Forget, files, inhand, ghosts
  <2>2. CASE WriteDesc
    BY <2>2 DEF WriteDesc, files, inhand
  <2>3. CASE WriteList
    BY <2>3 DEF WriteList, files
  <2>4. ASSUME NEW part \in SUBSET Paths, RecordStops(part)
        PROVE  UnpackedInv' /\ FilesPresent'
    BY <2>4 DEF RecordStops, EndTx, files
  <2> QED BY <1>5, <2>1, <2>2, <2>3, <2>4
<1>6. ASSUME NEW a \in leaving, RetireFiles(a) PROVE UnpackedInv' /\ FilesPresent'
  BY <1>6 DEF RetireFiles, RetirePaths, db
<1>7. CASE Unregister
  <2>1. /\ rel' = [rel EXCEPT ![Name[cur]] = NotInstalled]
        /\ list' = [list EXCEPT ![Name[cur]] = {}]
        /\ suspect' = suspect \ {Name[cur]} /\ disk' = disk /\ phase' \in {"idle", "retire"}
    BY <1>7 DEF Unregister, Forget, EndTx, files
  <2> QED BY <2>1
<1>8. ASSUME NEW q \in Paths, NEW b \in AdminBytes, AdminEdits(q, b)
      PROVE  UnpackedInv' /\ FilesPresent'
  BY <1>8 DEF AdminEdits, db, inhand, ghosts
<1>9. CASE \/ StopBeforeWriting \/ StartRepoBatch \/ CheckConflicts \/ SettleHeld
           \/ Finish \/ FinishRetiring \/ Interrupted \/ UNCHANGED vars
           \/ \E S \in SUBSET Releases : Resolve(S)
           \/ \E r \in Releases : Rollback(r)
           \/ \E r \in batch : HoldAlong(r)
           \/ \E r \in later : SkipAur(r) \/ BuildFails(r) \/ Builds(r)
           \/ \E S \in SUBSET Packages : Uninstall(S)
  <2>1. /\ disk' = disk /\ rel' = rel /\ list' = list /\ suspect' = suspect
        /\ \/ phase' \notin InHand
           \/ phase' = phase /\ cur' = cur /\ protected' = protected
    BY <1>9 DEF StopBeforeWriting, StartRepoBatch, CheckConflicts, SettleHeld, Finish,
       FinishRetiring, Interrupted, Resolve, Rollback, HoldAlong, SkipAur, BuildFails,
       Builds, Uninstall, EndTx, vars, files, db, inhand, ghosts
  <2> QED BY <2>1
<1> QED
  BY <1>1, <1>2, <1>3, <1>4, <1>5, <1>6, <1>7, <1>8, <1>9 DEF Next

\* Whatever fails or is interrupted, a package not cut short itself finds every
\* file it lists on disk.
THEOREM ListedFilesPresent == Spec => []FilesPresent
<1>1. PresentInv /\ [Next]_vars => PresentInv'
  BY TypeStep, PresentStep DEF PresentInv
<1>2. PresentInv => FilesPresent
  BY DEF PresentInv
<1> QED BY PresentInit, <1>1, <1>2, PTL DEF Spec
-----------------------------------------------------------------------------
(* Checksums on record, and what an administrator edited.                    *)

\* Between unpacking and registering, the payload's bytes of each configuration
\* file are where the record will read them: on disk, or in the .pacnew.  Before
\* that, whatever holds bytes of the administrator's is among what is spared.
RecordInv ==
  /\ phase = "unpack" =>
       \A p \in Backup[cur] : disk[p] \in AdminBytes => p \in protected
  /\ phase \in {"prune", "register", "desc"} =>
       \A p \in Backup[cur] :
         /\ p \in kept => pacnew[p] = Bytes[cur][p]
         /\ p \notin kept => disk[p] = Bytes[cur][p]

ShippedInv == TypeInv /\ RecordInv /\ ShippedOnRecord

LEMMA ShippedInit == Init => ShippedInv
BY TypeInit DEF Init, ShippedInv, RecordInv, ShippedOnRecord, Installed

LEMMA ShippedStep ==
  ASSUME ~EditsDuringTx, ShippedInv, [Next]_vars
  PROVE  RecordInv' /\ ShippedOnRecord'
<1> USE ReleaseAssumption, ContentAssumption, MarkerAssumption
    DEF ShippedInv, TypeInv, TypeOK, ControlInv, RecordInv, ShippedOnRecord, InHand, Working,
        Installed, Config, Stored
<1>1. ASSUME NEW r \in todo, Prepare(r) PROVE RecordInv' /\ ShippedOnRecord'
  <2>1. ASSUME NEW p \in Backup[r], disk[p] \in AdminBytes PROVE p \in Spared(r)
    BY <1>1, <2>1 DEF Spared, IsFile, Pristine
  <2> QED BY <1>1, <2>1 DEF Prepare, files, db
<1>2. CASE Unpack
  BY <1>2 DEF Unpack, db, inhand
<1>3. CASE Prune
  <2>1. /\ phase = "prune" /\ phase' = "register" /\ cur' = cur /\ cur \in Releases
        /\ kept' = kept /\ rel' = rel /\ hash' = hash /\ pacnew' = pacnew
        /\ disk' = [p \in Paths |-> IF p \in Stale(Name[cur]) THEN Absent ELSE disk[p]]
    BY <1>3 DEF Prune, RetirePaths, db, inhand
  <2>2. \A p \in Backup[cur] : p \notin Stale(Name[cur])
    BY <2>1 DEF Stale
  <2> QED BY <2>1, <2>2
<1>4. CASE Register
  <2>1. /\ phase = "register" /\ phase' = "desc" /\ cur' = cur /\ kept' = kept
        /\ disk' = disk /\ pacnew' = pacnew
        /\ rel' = [rel EXCEPT ![Name[cur]] = NotInstalled]
        /\ hash' = [hash EXCEPT ![Name[cur]] = [p \in Paths |-> Absent]]
    BY <1>4 DEF Register, Forget, files, inhand
  <2> QED BY <2>1
<1>8. CASE WriteDesc
  <2>1. /\ phase = "desc" /\ cur \in Releases
        /\ rel' = [rel EXCEPT ![Name[cur]] = cur]
        /\ hash' = [hash EXCEPT ![Name[cur]] = ReadBack]
        /\ phase' = "list"
    BY <1>8 DEF WriteDesc
  <2>2. \A p \in Backup[cur] : ReadBack[p] = Bytes[cur][p]
    BY <2>1 DEF ReadBack
  <2> QED BY <2>1, <2>2
<1>5. CASE Unregister
  <2>1. /\ rel' = [rel EXCEPT ![Name[cur]] = NotInstalled] /\ phase' \in {"idle", "retire"}
        /\ hash' = [hash EXCEPT ![Name[cur]] = [p \in Paths |-> Absent]]
    BY <1>5 DEF Unregister, Forget, EndTx
  <2> QED BY <2>1
<1>6. CASE UnpackFails
  <2>1. phase' = "idle" /\ rel' = rel /\ hash' = hash
    BY <1>6, HowUnpackFails DEF UnpackStops, EndTx, db
  <2> QED BY <2>1
<1>7. CASE \/ StopBeforeWriting \/ StartRepoBatch \/ CheckConflicts \/ SettleHeld
           \/ WriteList \/ Finish \/ FinishRetiring \/ Interrupted \/ UNCHANGED vars
           \/ \E part \in SUBSET Paths : RecordStops(part)
           \/ \E S \in SUBSET Releases : Resolve(S)
           \/ \E r \in Releases : Rollback(r)
           \/ \E r \in batch : HoldAlong(r)
           \/ \E r \in later : SkipAur(r) \/ BuildFails(r) \/ Builds(r)
           \/ \E S \in SUBSET Packages : Uninstall(S)
           \/ \E a \in leaving : RetireFiles(a)
           \/ \E q \in Paths, b \in AdminBytes : AdminEdits(q, b)
  <2>1. /\ rel' = rel /\ hash' = hash
        /\ \/ phase' \notin {"unpack", "prune", "register", "desc"}
           \/ /\ phase' = phase /\ cur' = cur /\ protected' = protected /\ kept' = kept
              /\ disk' = disk /\ pacnew' = pacnew
    BY <1>7 DEF StopBeforeWriting, StartRepoBatch, CheckConflicts, SettleHeld, WriteList,
       RecordStops, Finish, FinishRetiring, Interrupted, Resolve, Rollback, HoldAlong, SkipAur, BuildFails,
       Builds, Uninstall, RetireFiles, AdminEdits, EndTx, vars, files, db, inhand, ghosts
  <2> QED BY <2>1
<1> QED
  BY <1>1, <1>2, <1>3, <1>4, <1>5, <1>6, <1>7, <1>8 DEF Next

LEMMA ShippedAlways ==
  ASSUME ~EditsDuringTx
  PROVE  Spec => []ShippedInv
<1>1. ShippedInv /\ [Next]_vars => ShippedInv'
  BY TypeStep, ShippedStep DEF ShippedInv
<1> QED BY ShippedInit, <1>1, PTL DEF Spec

\* Provided nobody edits a configuration file while rvn is between unpacking it
\* and recording it, the record is of the bytes the package shipped.
THEOREM RecordIsOfWhatWasShipped ==
  ASSUME ~EditsDuringTx
  PROVE  Spec => []ShippedOnRecord
<1>1. ShippedInv => ShippedOnRecord
  BY DEF ShippedInv
<1> QED BY ShippedAlways, <1>1, PTL

\* retire_file sets aside what was edited: a recorded checksum is never that of
\* an administrator's bytes, so the comparison cannot miss one.
LEMMA RetiringKeepsEdits ==
  ASSUME ShippedInv, NEW a \in Packages, NEW P \in SUBSET Files(a), RetirePaths(a, P),
         NEW p \in Config(a), disk[p] \in AdminBytes, disk'[p] # disk[p]
  PROVE  pacsave'[p] = disk[p]
<1>1. p \in Paths /\ rel[a] \in Releases /\ a \in Installed
  BY ReleaseAssumption DEF Config, Installed, ShippedInv, TypeInv, TypeOK
<1>2. hash[a][p] = Bytes[rel[a]][p]
  BY <1>1 DEF ShippedInv, ShippedOnRecord
<1>3. Edited(a, p) /\ disk[p] # Absent
  BY <1>1, <1>2, ReleaseAssumption, ContentAssumption DEF Edited
<1>4. p \in P
  BY <1>1 DEF RetirePaths
<1> QED BY <1>1, <1>3, <1>4 DEF RetirePaths

LEMMA EditsKeptStep ==
  ASSUME ~EditsDuringTx, ShippedInv, [Next]_vars
  PROVE  EditStep
<1> SUFFICES ASSUME NEW p \in Paths, disk[p] \in AdminBytes, disk'[p] # disk[p],
                    disk'[p] \notin AdminBytes
             PROVE  \/ pacsave'[p] = disk[p]
                    \/ phase = "unpack" /\ p \notin Backup[cur]
                    \/ phase = "prune" /\ p \notin Config(Name[cur])
                    \/ phase = "retire" /\ \A a \in leaving : cur' = rel[a] => p \notin Config(a)
  BY DEF EditStep
<1> USE ReleaseAssumption, ContentAssumption, MarkerAssumption
    DEF ShippedInv, TypeInv, TypeOK, ControlInv, InHand
<1>1. CASE Unpack
  BY <1>1 DEF Unpack, RecordInv
<1>2. CASE UnpackFails
  <2>1. PICK f \in Ships[cur], S \in SUBSET Ships[cur],
             left \in {"untouched", "gone", "torn"}, undone \in BOOLEAN :
               cur \in Releases /\ UnpackStops(S, f, left, undone)
    BY <1>2, HowUnpackFails
  <2> QED BY <2>1 DEF UnpackStops, RecordInv
<1>3. CASE Prune
  <2>1. /\ phase = "prune" /\ RetirePaths(Name[cur], Stale(Name[cur]))
        /\ Name[cur] \in Packages /\ Stale(Name[cur]) \subseteq Files(Name[cur])
    BY <1>3 DEF Prune, Stale
  <2> QED BY <2>1, RetiringKeepsEdits
<1>4. ASSUME NEW a \in leaving, RetireFiles(a)
      PROVE  \/ pacsave'[p] = disk[p]
             \/ phase = "retire" /\ \A b \in leaving : cur' = rel[b] => p \notin Config(b)
  <2>1. /\ phase = "retire" /\ cur' = rel[a] /\ a \in Packages /\ a \in Installed
    BY <1>4 DEF RetireFiles
  <2>2. PICK P \in SUBSET Files(a) : RetirePaths(a, P)
    BY <1>4 DEF RetireFiles
  <2>3. CASE p \in Config(a)
    BY <2>1, <2>2, <2>3, RetiringKeepsEdits
  <2>4. CASE p \notin Config(a)
    BY <2>1, <2>4 DEF Installed
  <2> QED BY <2>3, <2>4
<1>5. ASSUME NEW q \in Paths, NEW b \in AdminBytes, AdminEdits(q, b) PROVE FALSE
  BY <1>5 DEF AdminEdits
<1>6. CASE \/ StopBeforeWriting \/ StartRepoBatch \/ CheckConflicts \/ SettleHeld
           \/ Register \/ WriteDesc \/ WriteList \/ Finish \/ FinishRetiring
           \/ Unregister \/ Interrupted
           \/ \E part \in SUBSET Paths : RecordStops(part)
           \/ UNCHANGED vars
           \/ \E S \in SUBSET Releases : Resolve(S)
           \/ \E r \in Releases : Rollback(r)
           \/ \E r \in batch : HoldAlong(r)
           \/ \E r \in todo : Prepare(r)
           \/ \E r \in later : SkipAur(r) \/ BuildFails(r) \/ Builds(r)
           \/ \E S \in SUBSET Packages : Uninstall(S)
  <2>1. disk' = disk
    BY <1>6 DEF StopBeforeWriting, StartRepoBatch, CheckConflicts, SettleHeld, Register,
       WriteDesc, WriteList, RecordStops,
       Finish, FinishRetiring, Unregister, Interrupted, Resolve, Rollback, HoldAlong,
       Prepare, SkipAur, BuildFails, Builds, Uninstall, vars, files
  <2> QED BY <2>1
<1> QED
  BY <1>1, <1>2, <1>3, <1>4, <1>5, <1>6 DEF Next

\* An administrator's bytes in a declared configuration file are never lost to
\* an install, an upgrade, a removal or a failure of one.
THEOREM EditedConfigurationKept ==
  ASSUME ~EditsDuringTx
  PROVE  Spec => EditsKept
<1>1. ShippedInv /\ [Next]_vars => [EditStep]_vars
  BY EditsKeptStep
<1> QED BY ShippedAlways, <1>1, PTL DEF Spec, EditsKept

-----------------------------------------------------------------------------
(* What a new package supersedes is retired.                                 *)

\* As long as nothing has failed, a pair that is owed is one of this plan's, its
\* successor is registered and its predecessor still there; when the removals
\* start, the predecessor is among them.
OwedInv ==
  mishaps = 0 =>
    \A e \in owed :
      IF phase \in {"retire", "unregister"} THEN e[2] \in leaving
      ELSE e \in replacing /\ e[1] \in fresh /\ e[2] \in Installed

LEMMA OwedPair ==
  ASSUME TypeOK, NEW e \in owed
  PROVE  e = <<e[1], e[2]>>
BY DEF TypeOK

LEMMA OwedStep ==
  ASSUME TypeInv, PlanInv, OwedInv, [Next]_vars
  PROVE  OwedInv'
<1> USE DEF TypeInv, TypeOK, ControlInv, OwedInv, InHand
<1>1. ASSUME NEW S \in SUBSET Releases, Resolve(S) PROVE OwedInv'
  BY <1>1 DEF Resolve, ghosts
<1>2. ASSUME NEW r \in Releases, Rollback(r) PROVE OwedInv'
  BY <1>2 DEF Rollback, ghosts
<1>3. CASE StopBeforeWriting
  BY <1>3 DEF StopBeforeWriting, EndTx, ghosts
<1>4. CASE Register \/ WriteDesc \/ WriteList
  <2>0. cur \in plan /\ Name[cur] \in Packages
    BY <1>4, ReleaseAssumption DEF Register, WriteDesc, WriteList
  <2>1. /\ \A a \in Packages \ {Name[cur]} : rel'[a] = rel[a]
        /\ fresh \subseteq fresh' /\ replacing' = replacing /\ mishaps' = mishaps
        /\ phase \notin {"retire", "unregister"} /\ phase' \notin {"retire", "unregister"}
    BY <1>4 DEF Register, WriteDesc, WriteList, Forget, tx, ghosts
  <2>2. \A e \in replacing : e[2] \in Packages \ {Name[cur]}
    BY <2>0 DEF PlanInv, Names
  <2>3. ASSUME NEW e \in owed' PROVE e \in owed \/ (e \in replacing /\ e[1] \in fresh' /\ e[2] \in Installed)
    BY <1>4, <2>3 DEF Register, WriteDesc, WriteList, ghosts
  <2> QED BY <2>1, <2>2, <2>3 DEF Installed
<1>5. CASE Finish
  <2>1. owed' = owed /\ mishaps' = mishaps /\ phase = "next" /\ Superseded = {}
    BY <1>5 DEF Finish, ghosts
  <2>2. ASSUME mishaps = 0, NEW e \in owed PROVE e[2] \in Superseded
    <3>1. e = <<e[1], e[2]>>
      BY <2>2, OwedPair
    <3>2. e \in replacing /\ e[1] \in fresh /\ e[2] \in Installed
      BY <2>1, <2>2
    <3> QED BY <3>1, <3>2 DEF Superseded
  <2> QED BY <2>1, <2>2
<1>6. CASE FinishRetiring
  <2>1. /\ owed' = owed /\ mishaps' = mishaps /\ phase = "next" /\ phase' = "retire"
        /\ leaving' = Superseded
    BY <1>6 DEF FinishRetiring, ghosts
  <2>2. ASSUME mishaps = 0, NEW e \in owed PROVE e[2] \in Superseded
    BY <2>1, <2>2, OwedPair DEF Superseded
  <2> QED BY <2>1, <2>2
<1>7. ASSUME NEW S \in SUBSET Packages, Uninstall(S) PROVE OwedInv'
  BY <1>7 DEF Uninstall, ghosts
<1>8. ASSUME NEW a \in leaving, RetireFiles(a) PROVE OwedInv'
  BY <1>8 DEF RetireFiles, tx
<1>9. CASE Unregister
  BY <1>9 DEF Unregister, Forget, EndTx
<1>10. CASE UnpackFails \/ Interrupted \/ \E part \in SUBSET Paths : RecordStops(part)
  <2>1. mishaps' = mishaps + 1
    BY <1>10, HowUnpackFails DEF UnpackStops, Interrupted, RecordStops
  <2> QED BY <2>1, MarkerAssumption
<1>11. CASE \/ StartRepoBatch \/ CheckConflicts \/ SettleHeld \/ Unpack \/ Prune
            \/ \E r \in batch : HoldAlong(r)
            \/ \E r \in todo : Prepare(r)
            \/ \E r \in later : SkipAur(r) \/ BuildFails(r) \/ Builds(r)
            \/ \E q \in Paths, b \in AdminBytes : AdminEdits(q, b)
            \/ UNCHANGED vars
  <2>1. /\ replacing' = replacing /\ fresh' = fresh /\ rel' = rel /\ owed' = owed
        /\ mishaps' = mishaps /\ leaving' = leaving
        /\ phase' \in {"retire", "unregister"} <=> phase \in {"retire", "unregister"}
    BY <1>11 DEF StartRepoBatch, CheckConflicts, SettleHeld, Unpack, Prune, HoldAlong,
       Prepare, SkipAur, BuildFails, Builds, AdminEdits, vars, tx, db, ghosts
  <2> QED BY <2>1 DEF Installed
<1> QED
  BY <1>1, <1>2, <1>3, <1>4, <1>5, <1>6, <1>7, <1>8, <1>9, <1>10, <1>11 DEF Next

\* Unless a transaction failed, none ends with a superseded package installed
\* beside its successor: the pairs noted while the plan was made are all still
\* known when the removals start, and the removals take every one of them.
THEOREM SupersededAreRetired == Spec => []RetiredUnlessFailed
<1>1. TypeInv /\ PlanInv /\ OwedInv /\ [Next]_vars => (TypeInv /\ PlanInv /\ OwedInv)'
  BY TypeStep, PlanStep, OwedStep
<1>2. Init => TypeInv /\ PlanInv /\ OwedInv
  BY OwnerInit DEF Init, OwedInv, OwnerInv
<1>3. TypeInv /\ PlanInv /\ OwedInv => RetiredUnlessFailed
  BY DEF TypeInv, TypeOK, ControlInv, OwedInv, RetiredUnlessFailed, Retired
<1> QED BY <1>1, <1>2, <1>3, PTL DEF Spec

-----------------------------------------------------------------------------
(* Account files.                                                            *)

\* Every account file the archive declares and the disk has is spared.
SparedInv ==
  phase = "unpack" =>
    \A p \in NeverReplaced \cap Backup[cur] : IsFile(p) => p \in protected

LEMMA SparedStep ==
  ASSUME ~EditsDuringTx, TypeInv, SparedInv, [Next]_vars
  PROVE  SparedInv'
<1> USE DEF SparedInv, TypeInv, TypeOK
<1>1. ASSUME NEW r \in todo, Prepare(r) PROVE SparedInv'
  BY <1>1 DEF Prepare, Spared, IsFile, files
<1>2. ASSUME NEW q \in Paths, NEW b \in AdminBytes, AdminEdits(q, b) PROVE SparedInv'
  BY <1>2 DEF AdminEdits
<1>3. CASE UNCHANGED vars
  BY <1>3 DEF vars, files, inhand, IsFile
<1>4. CASE \/ StopBeforeWriting \/ StartRepoBatch \/ CheckConflicts \/ SettleHeld
           \/ Unpack \/ Prune \/ Register \/ WriteDesc \/ WriteList \/ Finish
           \/ FinishRetiring \/ Unregister \/ UnpackFails \/ Interrupted
           \/ \E part \in SUBSET Paths : RecordStops(part)
           \/ \E S \in SUBSET Releases : Resolve(S)
           \/ \E r \in Releases : Rollback(r)
           \/ \E r \in batch : HoldAlong(r)
           \/ \E r \in later : SkipAur(r) \/ BuildFails(r) \/ Builds(r)
           \/ \E S \in SUBSET Packages : Uninstall(S)
           \/ \E a \in leaving : RetireFiles(a)
  <2>1. phase' # "unpack"
    BY <1>4, HowUnpackFails DEF StopBeforeWriting, StartRepoBatch, CheckConflicts,
       SettleHeld, Unpack, Prune, Register, WriteDesc, WriteList, RecordStops, Finish,
       FinishRetiring, Unregister,
       UnpackStops, Interrupted, Resolve, Rollback, HoldAlong, SkipAur, BuildFails,
       Builds, Uninstall, RetireFiles, EndTx
  <2> QED BY <2>1
<1> QED
  BY <1>1, <1>2, <1>3, <1>4 DEF Next

\* Unpacking an archive, completed or cut short, leaves an account file that is
\* there as it is, in a catalogue whose packages declare the account files they
\* ship (one that does not is taken for an ordinary file) and while nobody edits
\* between the comparison and the extraction.
THEOREM AccountFilesKept ==
  ASSUME ~EditsDuringTx, \A r \in Releases : Ships[r] \cap NeverReplaced \subseteq Backup[r]
  PROVE  Spec => AccountsKept
<1>1. TypeInv /\ SparedInv /\ [Next]_vars => (TypeInv /\ SparedInv)'
  BY TypeStep, SparedStep
<1>2. Init => TypeInv /\ SparedInv
  BY TypeInit DEF Init, SparedInv
<1>3. TypeInv /\ SparedInv /\ [Next]_vars => [AccountStep]_vars
  <2> SUFFICES ASSUME TypeInv, SparedInv, Next, phase = "unpack",
                      NEW p \in NeverReplaced, IsFile(p)
               PROVE  disk'[p] = disk[p]
    BY DEF AccountStep
  <2> USE ReleaseAssumption DEF TypeInv, TypeOK
  <2>0. cur \in Releases /\ (p \in Ships[cur] => p \in protected)
    BY DEF SparedInv, ControlInv, InHand
  <2>1. CASE Unpack
    BY <2>0, <2>1 DEF Unpack
  <2>2. CASE UnpackFails
    <3>1. PICK f \in Ships[cur], S \in SUBSET Ships[cur],
               left \in {"untouched", "gone", "torn"}, undone \in BOOLEAN :
                 cur \in Releases /\ UnpackStops(S, f, left, undone)
      BY <2>2, HowUnpackFails
    <3> QED BY <2>0, <3>1 DEF UnpackStops
  <2>3. CASE Interrupted
    BY <2>3 DEF Interrupted, files
  <2>4. ASSUME NEW q \in Paths, NEW b \in AdminBytes, AdminEdits(q, b) PROVE FALSE
    BY <2>4 DEF AdminEdits
  <2> QED
    BY <2>1, <2>2, <2>3, <2>4 DEF Next, Resolve, Rollback, StopBeforeWriting,
       StartRepoBatch, CheckConflicts, HoldAlong, SettleHeld, Prepare, Prune, Register,
       WriteDesc, WriteList, RecordStops,
       SkipAur, BuildFails, Builds, Finish, FinishRetiring, Uninstall, RetireFiles,
       Unregister
<1> QED BY <1>1, <1>2, <1>3, PTL DEF Spec, AccountsKept

-----------------------------------------------------------------------------
(* Dependencies.                                                             *)

\* What r needs is installed, was taken away by a mishap, or is among the
\* archives in S.
Have(r, S) ==
  \A n \in Depends[r] : Had(n) \/ \E s \in S : Satisfies(s, n)

Underway == phase \notin {"idle", "retire", "unregister"}

\* A plan is complete, and it stays so in each of the parts into which it falls:
\* the archives of a batch need nothing outside it that is not installed, the
\* one in hand needs nothing more but what its own build still has to come, and
\* what the builds still to come need has gone in, is to come, or has been given
\* up, where Stranded will see it.
NeedInv ==
  /\ Underway => later \subseteq Aur
  /\ Underway => \A r \in plan : Have(r, plan)
  /\ phase = "pre" => \A r \in plan \ later : Have(r, plan \ later)
  /\ phase \in {"check", "hold"} => \A r \in batch : Have(r, batch)
  /\ phase \in Working => \A r \in todo : Have(r, todo)
  /\ phase \in InHand => Have(cur, {cur} \cup (todo \cap Aur))
  /\ phase \in {"check", "hold"} => \A r \in later : Have(r, later \cup skipped \cup batch)
  /\ phase \in Working \cup {"next"} => \A r \in later : Have(r, later \cup skipped \cup todo)

\* A successor satisfies whoever its predecessor does.
SuccessorInv ==
  Underway =>
    \A e \in replacing : e[2] \in Installed =>
      \A r \in plan : Name[r] = e[1] => Covers(r, rel[e[2]])

\* What stays depends on nothing that leaves, and nothing that still has to
\* leave depends on the package whose files have just gone.
LeaveInv ==
  /\ phase \in {"retire", "unregister"} =>
       \A b \in Installed \ leaving : \A n \in Depends[rel[b]] :
         Satisfiers(n) \ leaving # {} \/ \E r \in lost : Satisfies(r, n)
  /\ phase = "unregister" =>
       /\ cur = rel[Name[cur]]
       /\ \A b \in leaving \ {Name[cur]} : ~Needs(rel[b], cur)

DepInv == TypeInv /\ PlanInv /\ DependenciesMet /\ NeedInv /\ SuccessorInv /\ LeaveInv

\* The archive that install_order puts first needs none of the others.
LEMMA FirstNeedsNone ==
  ASSUME Orderly, NEW S \in SUBSET Releases, NEW r \in FirstOf(S),
         NEW s \in S, Needs(r, s)
  PROVE  s = r
<1>1. \E x \in S : \A y \in S \ {x} : ~Needs(x, y)
  BY DEF Orderly
<1> QED BY <1>1 DEF FirstOf

\* The package that removal_order puts first is needed by none of the others.
LEMMA FirstIsNotNeeded ==
  ASSUME Orderly, TypeInv, leaving \subseteq Installed,
         NEW a \in DependentsFirst(leaving), NEW b \in leaving \ {a}
  PROVE  ~Needs(rel[b], rel[a])
<1> DEFINE S == {rel[x] : x \in leaving}
<1>1. \A x \in leaving : x \in Packages /\ rel[x] \in Releases /\ Name[rel[x]] = x
  BY DEF TypeInv, TypeOK, Installed
<1>2. S \in SUBSET Releases /\ S # {}
  BY <1>1
<1>3. PICK r \in S : \A s \in S \ {r} : ~Needs(s, r)
  BY <1>2 DEF Orderly
<1>4. PICK x \in leaving : r = rel[x]
  BY <1>3
<1>5. \A y \in leaving \ {x} : ~Needs(rel[y], rel[x])
  BY <1>1, <1>3, <1>4
<1> QED BY <1>5 DEF DependentsFirst

\* Taking a record away leaves nobody without but for the release that takes
\* its place, which satisfies whom the old one did.
LEMMA RegisterLeaves ==
  ASSUME Orderly, TypeInv, Register, NEW n \in Needed, Had(n)
  PROVE  Had(n)' \/ Satisfies(cur, n)
<1>1. /\ cur \in Releases /\ Name[cur] \in Packages /\ lost' = lost
      /\ rel' = [rel EXCEPT ![Name[cur]] = NotInstalled]
  BY ReleaseAssumption DEF TypeInv, TypeOK, ControlInv, InHand, Register, Forget, ghosts
<1>2. ASSUME NEW b \in Satisfiers(n) PROVE Satisfiers(n)' # {} \/ Satisfies(cur, n)
  <2>1. b \in Packages /\ rel[b] \in Releases /\ Name[rel[b]] = b /\ Satisfies(rel[b], n)
    BY <1>2 DEF Satisfiers, Installed, TypeInv, TypeOK
  <2>2. CASE b = Name[cur]
    <3>1. Covers(cur, rel[b])
      BY <1>1, <2>1, <2>2 DEF Orderly
    <3> QED BY <2>1, <3>1 DEF Covers
  <2>3. CASE b # Name[cur]
    BY <1>1, <2>1, <2>3, MarkerAssumption DEF Satisfiers, Installed, TypeInv, TypeOK
  <2> QED BY <2>2, <2>3
<1> QED BY <1>1, <1>2 DEF Had

\* The new desc gives back what the old one gave, and what had been lost with it.
LEMMA DescGives ==
  ASSUME Orderly, TypeInv, WriteDesc, NEW n \in Needed, Had(n) \/ Satisfies(cur, n)
  PROVE  Had(n)'
<1>1. /\ cur \in Releases /\ Name[cur] \in Packages /\ cur # NotInstalled
      /\ rel[Name[cur]] = NotInstalled /\ rel' = [rel EXCEPT ![Name[cur]] = cur]
      /\ lost' = {r \in lost : Name[r] # Name[cur]} /\ lost \subseteq Releases
  BY ReleaseAssumption, MarkerAssumption DEF TypeInv, TypeOK, ControlInv, InHand, WriteDesc
<1>2. CASE Satisfies(cur, n)
  <2>1. Name[cur] \in Satisfiers(n)'
    BY <1>1, <1>2 DEF Satisfiers, Installed, TypeInv, TypeOK
  <2> QED BY <2>1 DEF Had
<1>3. ASSUME NEW b \in Satisfiers(n) PROVE Had(n)'
  <2>1. b \in Satisfiers(n)'
    BY <1>1, <1>3 DEF Satisfiers, Installed, TypeInv, TypeOK
  <2> QED BY <2>1 DEF Had
<1>4. ASSUME NEW r \in lost, Satisfies(r, n) PROVE Had(n)'
  <2>1. CASE Name[r] = Name[cur]
    <3>1. Covers(cur, r)
      BY <1>1, <2>1 DEF Orderly
    <3> QED BY <1>2, <1>4, <3>1 DEF Covers
  <2>2. CASE Name[r] # Name[cur]
    BY <1>1, <1>4, <2>2 DEF Had
  <2> QED BY <2>1, <2>2
<1> QED BY <1>2, <1>3, <1>4 DEF Had

\* From its desc on, the archive in hand is what satisfies others.
LEMMA ListedGives ==
  ASSUME TypeInv, WriteList, NEW n, Had(n) \/ Satisfies(cur, n)
  PROVE  Had(n)'
<1>1. /\ Name[cur] \in Packages /\ rel[Name[cur]] = cur /\ cur # NotInstalled
      /\ rel' = rel /\ lost' = lost
  BY ReleaseAssumption, MarkerAssumption DEF TypeInv, TypeOK, ControlInv, InHand, WriteList
<1>2. Satisfies(cur, n) => Name[cur] \in Satisfiers(n)
  BY <1>1 DEF Satisfiers, Installed
<1>3. Satisfiers(n)' = Satisfiers(n)
  BY <1>1 DEF Satisfiers, Installed
<1> QED BY <1>1, <1>2, <1>3 DEF Had

LEMMA SatisfiersKept ==
  ASSUME UNCHANGED rel, NEW n
  PROVE  Satisfiers(n)' = Satisfiers(n)
BY DEF Satisfiers, Installed

\* Nothing is gone as long as no record changes.
LEMMA HadKept ==
  ASSUME UNCHANGED rel, lost \subseteq lost', NEW n, Had(n)
  PROVE  Had(n)'
BY SatisfiersKept DEF Had

LEMMA NeedStep ==
  ASSUME Orderly, TypeInv, DependenciesMet, NeedInv, [Next]_vars
  PROVE  NeedInv'
<1> USE DEF NeedInv, Underway, InHand, Working
<1>0. /\ plan \subseteq Releases /\ later \subseteq plan /\ batch \subseteq plan /\ todo \subseteq batch
      /\ phase \in InHand => cur \in todo
      /\ phase \notin Working => todo = {}
      /\ phase = "idle" => plan = {}
  BY DEF TypeInv, TypeOK, ControlInv
<1> USE <1>0
<1>1. ASSUME NEW S \in SUBSET Releases, Resolve(S) PROVE NeedInv'
  <2>1. /\ plan' = S /\ later' = S \cap Aur /\ phase' = "pre" /\ rel' = rel /\ lost' = lost
    BY <1>1 DEF Resolve, db, ghosts
  <2>2. \A r \in S : Have(r, S)
    BY <1>1 DEF Resolve, Resolvable, Have, Had
  <2>3. \A r \in S \ Aur : Have(r, S \ Aur)
    <3> SUFFICES ASSUME NEW r \in S \ Aur, NEW n \in Depends[r], ~Had(n)
                 PROVE  \E s \in S \ Aur : Satisfies(s, n)
      BY DEF Have
    <3>1. PICK s \in S : Satisfies(s, n)
      BY <2>2 DEF Have
    <3>2. s \notin Aur
      BY <3>1 DEF Orderly, Needs
    <3> QED BY <3>1, <3>2
  <2>4. plan' \ later' = S \ Aur
    BY <2>1
  <2> QED BY <2>1, <2>2, <2>3, <2>4, HadKept DEF Have
<1>2. ASSUME NEW r \in Releases, Rollback(r) PROVE NeedInv'
  <2>1. /\ plan' = {r} /\ later' = {} /\ phase = "idle" /\ phase' = "pre"
        /\ rel' = rel /\ lost' = lost
        /\ rel[Name[r]] \in Releases /\ Name[r] \in Installed
        /\ Name[rel[Name[r]]] = Name[r] /\ Version[r] < Version[rel[Name[r]]]
    BY <1>0, <1>2 DEF Rollback, db, ghosts, Installed, TypeInv, TypeOK
  <2>2. Depends[r] \subseteq Depends[rel[Name[r]]]
    BY <2>1 DEF Orderly
  <2>3. Awaited = {}
    BY <2>1 DEF Awaited
  <2>4. Have(r, {r})
    BY <2>1, <2>2, <2>3 DEF DependenciesMet, Have
  <2> QED BY <2>1, <2>4, HadKept DEF Have
<1>3. CASE StartRepoBatch
  <2>1. /\ phase = "pre" /\ batch' = plan \ later /\ plan' = plan /\ later' = later
        /\ rel' = rel /\ lost' = lost /\ todo' = todo /\ skipped' = skipped
        /\ phase' = IF plan = later THEN "next" ELSE "check"
    BY <1>3 DEF StartRepoBatch, tx, db, inhand, ghosts
  <2>2. \A r \in later : Have(r, later \cup (plan \ later))
    BY <2>1 DEF Have
  <2> QED BY <2>1, <2>2, HadKept DEF Have
<1>4. CASE CheckConflicts \/ \E r \in batch : HoldAlong(r)
  <2>1. /\ phase \in {"check", "hold"} /\ phase' = "hold" /\ batch' = batch /\ plan' = plan
        /\ later' = later /\ rel' = rel /\ lost' = lost /\ skipped' = skipped
    BY <1>4 DEF CheckConflicts, HoldAlong, tx, db, ghosts
  <2> QED BY <2>1, HadKept DEF Have
<1>5. CASE SettleHeld
  <2>1. /\ phase = "hold" /\ phase' = (IF batch = held THEN "next" ELSE "install")
        /\ plan' = plan /\ later' = later /\ rel' = rel /\ lost' = lost
        /\ todo' = batch \ held /\ skipped' = skipped \cup held
    BY <1>5 DEF SettleHeld, db, ghosts
  <2>2. \A r \in batch \ held : Have(r, batch \ held)
    <3> SUFFICES ASSUME NEW r \in batch \ held, NEW n \in Depends[r], ~Had(n)
                 PROVE  \E s \in batch \ held : Satisfies(s, n)
      BY DEF Have
    <3>1. PICK s \in batch : Satisfies(s, n)
      BY <2>1 DEF Have
    <3>2. s \notin held
      BY <1>5, <3>1 DEF SettleHeld, GoesAlong, Needs
    <3> QED BY <3>1, <3>2
  <2> QED BY <2>1, <2>2, HadKept DEF Have
<1>6. ASSUME NEW r \in todo, Prepare(r) PROVE NeedInv'
  <2>1. /\ phase = "install" /\ phase' = "unpack" /\ cur' = r /\ todo' = todo /\ plan' = plan
        /\ later' = later /\ skipped' = skipped /\ rel' = rel /\ lost' = lost
        /\ r \in NextOf(todo)
    BY <1>6 DEF Prepare, tx, db, ghosts
  <2>2. Have(r, {r} \cup (todo \cap Aur))
    <3>1. CASE todo \subseteq Aur
      BY <2>1, <3>1 DEF Have
    <3>2. CASE ~(todo \subseteq Aur)
      <4>1. r \in FirstOf(todo) /\ Have(r, todo)
        BY <2>1, <3>2 DEF NextOf
      <4> QED BY <4>1, FirstNeedsNone DEF Have, Needs
    <3> QED BY <3>1, <3>2
  <2> QED BY <2>1, <2>2, HadKept DEF Have
<1>7. CASE Register \/ WriteDesc
  <2>1. /\ phase \in {"register", "desc"} /\ phase' \in {"desc", "list"} /\ cur \in todo
        /\ todo' = todo /\ plan' = plan /\ later' = later /\ skipped' = skipped /\ cur' = cur
    BY <1>7 DEF Register, WriteDesc, tx, inhand
  <2>2. ASSUME NEW r \in Releases, NEW S, Have(r, S), cur \in S
        PROVE  \A n \in Depends[r] : Had(n)' \/ \E s \in S : Satisfies(s, n)
    BY <1>7, <2>2, RegisterLeaves, DescGives DEF Have, Needed
  <2>3. \A r \in plan : \A n \in Depends[r] : Had(n)' \/ \E s \in plan : Satisfies(s, n)
    BY <2>1, <2>2
  <2>4. \A r \in todo : \A n \in Depends[r] : Had(n)' \/ \E s \in todo : Satisfies(s, n)
    BY <2>1, <2>2
  <2>5. \A n \in Depends[cur] : Had(n)' \/ \E s \in {cur} \cup (todo \cap Aur) : Satisfies(s, n)
    <3> DEFINE S == {cur} \cup (todo \cap Aur)
    <3>1. cur \in S /\ cur \in Releases /\ Have(cur, S)
      BY <2>1
    <3> HIDE DEF S
    <3>2. \A n \in Depends[cur] : Had(n)' \/ \E s \in S : Satisfies(s, n)
      BY <2>2, <3>1
    <3> QED BY <3>2 DEF S
  <2>6. \A r \in later : \A n \in Depends[r] :
          Had(n)' \/ \E s \in later \cup skipped \cup todo : Satisfies(s, n)
    <3> DEFINE S == later \cup skipped \cup todo
    <3>1. cur \in S /\ \A r \in later : r \in Releases /\ Have(r, S)
      BY <2>1
    <3> HIDE DEF S
    <3>2. \A r \in later : \A n \in Depends[r] : Had(n)' \/ \E s \in S : Satisfies(s, n)
      BY <2>2, <3>1
    <3> QED BY <3>2 DEF S
  <2> QED BY <2>1, <2>3, <2>4, <2>5, <2>6 DEF Have
<1>8. CASE WriteList
  <2>1. /\ phase = "list" /\ phase' \in {"next", "install"} /\ cur \in todo
        /\ todo' = todo \ {cur} /\ plan' = plan /\ later' = later /\ skipped' = skipped
    BY <1>8 DEF WriteList
  <2>2. ASSUME NEW r, NEW S, NEW T, Have(r, S), S \subseteq T \cup {cur}
        PROVE  \A n \in Depends[r] : Had(n)' \/ \E s \in T : Satisfies(s, n)
    BY <1>8, <2>2, ListedGives DEF Have
  <2>3. \A r \in plan : \A n \in Depends[r] : Had(n)' \/ \E s \in plan : Satisfies(s, n)
    BY <2>1, <2>2
  <2>4. \A r \in todo \ {cur} : \A n \in Depends[r] :
          Had(n)' \/ \E s \in todo \ {cur} : Satisfies(s, n)
    BY <2>1, <2>2
  <2>5. \A r \in later : \A n \in Depends[r] :
          Had(n)' \/ \E s \in later \cup skipped \cup (todo \ {cur}) : Satisfies(s, n)
    <3> DEFINE S == later \cup skipped \cup todo
               T == later \cup skipped \cup (todo \ {cur})
    <3>1. S \subseteq T \cup {cur}
      OBVIOUS
    <3>2. \A r \in later : Have(r, S)
      BY <2>1
    <3> HIDE DEF S, T
    <3>3. \A r \in later : \A n \in Depends[r] : Had(n)' \/ \E s \in T : Satisfies(s, n)
      BY <2>2, <3>1, <3>2
    <3> QED BY <3>3 DEF T
  <2> QED BY <2>1, <2>3, <2>4, <2>5 DEF Have
<1>9. ASSUME NEW r \in later, SkipAur(r) \/ BuildFails(r) PROVE NeedInv'
  <2>1. /\ phase = "next" /\ phase' = "next" /\ plan' = plan /\ todo' = todo
        /\ later' = later \ {r} /\ skipped' = skipped \cup {r} /\ rel' = rel /\ lost' = lost
    BY <1>9 DEF SkipAur, BuildFails, db, inhand, ghosts
  <2> QED BY <2>1, HadKept DEF Have
<1>10. ASSUME NEW r \in later, Builds(r) PROVE NeedInv'
  <2>1. /\ phase = "next" /\ phase' = "check" /\ plan' = plan /\ todo = {} /\ r \in FirstOf(later)
        /\ later' = later \ {r} /\ skipped' = skipped /\ rel' = rel /\ lost' = lost
        /\ batch' = Built(r)
    BY <1>10 DEF Builds, db, ghosts
  <2>2. r \in Aur /\ r \in Built(r)
    BY <2>1 DEF Built
  <2>3. \A n \in Depends[r] : Had(n) \/ Satisfies(r, n)
    <3> SUFFICES ASSUME NEW n \in Depends[r], ~Had(n) PROVE Satisfies(r, n)
      OBVIOUS
    <3>1. PICK s \in later \cup skipped : Satisfies(s, n)
      BY <2>1 DEF Have
    <3>2. Needs(r, s)
      BY <3>1 DEF Needs
    <3>3. s \notin skipped
      BY <1>10, <3>2 DEF Builds, Stranded
    <3> QED BY <2>1, <3>1, <3>2, <3>3, FirstNeedsNone
  <2>4. \A s \in Built(r) : Have(s, Built(r))
    <3> SUFFICES ASSUME NEW s \in Built(r), NEW n \in Depends[s], ~Had(n)
                 PROVE  \E x \in Built(r) : Satisfies(x, n)
      BY DEF Have
    <3>1. s \in plan /\ s \in Aur /\ Base[s] = Base[r]
      BY DEF Built
    <3>2. CASE n \in Depends[r]
      BY <2>2, <2>3, <3>2
    <3>3. CASE n \notin Depends[r]
      <4>1. PICK y \in plan : Satisfies(y, n)
        BY <2>1, <3>1 DEF Have
      <4>2. y \in Aur /\ Base[y] = Base[s]
        BY <2>2, <3>1, <3>3, <4>1 DEF Orderly
      <4> QED BY <3>1, <4>1, <4>2 DEF Built
    <3> QED BY <3>2, <3>3
  <2>5. \A x \in later \ {r} : Have(x, (later \ {r}) \cup skipped \cup Built(r))
    BY <2>1, <2>2 DEF Have
  <2> QED BY <2>1, <2>4, <2>5, HadKept DEF Have
<1>11. CASE \/ StopBeforeWriting \/ UnpackFails \/ Finish \/ FinishRetiring \/ Interrupted \/ Unregister
            \/ \E S \in SUBSET Packages : Uninstall(S)
            \/ \E a \in leaving : RetireFiles(a)
            \/ \E part \in SUBSET Paths : RecordStops(part)
  <2>1. phase' \in {"idle", "retire", "unregister"}
    BY <1>11, HowUnpackFails DEF StopBeforeWriting, UnpackStops, Finish, FinishRetiring,
       Interrupted, Unregister, Uninstall, RetireFiles, RecordStops, EndTx
  <2> QED BY <2>1
<1>12. CASE \/ Unpack \/ Prune \/ \E q \in Paths, b \in AdminBytes : AdminEdits(q, b)
            \/ UNCHANGED vars
  <2>1. /\ plan' = plan /\ later' = later /\ skipped' = skipped /\ batch' = batch
        /\ todo' = todo /\ cur' = cur /\ rel' = rel /\ lost' = lost
        /\ \/ phase' = phase
           \/ phase \in {"unpack", "prune"} /\ phase' \in {"prune", "register"}
    BY <1>12 DEF Unpack, Prune, AdminEdits, vars, tx, call, db, inhand, ghosts
  <2> QED BY <2>1, HadKept DEF Have
<1> QED
  BY <1>1, <1>2, <1>3, <1>4, <1>5, <1>6, <1>7, <1>8, <1>9, <1>10, <1>11, <1>12 DEF Next

LEMMA SuccessorStep ==
  ASSUME Orderly, TypeInv, PlanInv, SuccessorInv, [Next]_vars
  PROVE  SuccessorInv'
<1> USE DEF SuccessorInv, Underway, Installed
<1>1. ASSUME NEW S \in SUBSET Releases, Resolve(S) PROVE SuccessorInv'
  <2>1. PICK draw \in Draws(Named(S)) : replacing' = Replaced(S, draw)
    BY <1>1 DEF Resolve
  <2>2. plan' = S /\ rel' = rel /\ \A r, s \in S : Name[r] = Name[s] => r = s
    BY <1>1 DEF Resolve, Resolvable, db
  <2>3. ASSUME NEW e \in Replaced(S, draw), NEW r \in S, Name[r] = e[1], rel[e[2]] # NotInstalled
        PROVE  Covers(r, rel[e[2]])
    <3>0. PICK q \in S : \E n \in Replaces[q] :
            e[1] = Name[q] /\ Satisfiers(n) # {} /\ e[2] = draw[Satisfiers(n)]
      BY DEF Replaced
    <3>1. PICK n \in Replaces[q] :
            e[1] = Name[q] /\ Satisfiers(n) # {} /\ e[2] = draw[Satisfiers(n)]
      BY <3>0
    <3>2. q = r
      BY <2>2, <2>3, <3>1
    <3>3. Satisfiers(n) \in Named(S)
      BY <3>1 DEF Named
    <3>4. e[2] \in Satisfiers(n)
      BY <3>1, <3>3 DEF Draws
    <3>5. Satisfies(rel[e[2]], n) /\ rel[e[2]] \in Releases
      BY <3>4 DEF Satisfiers, TypeInv, TypeOK
    <3> QED BY <3>1, <3>2, <3>5 DEF Orderly
  <2> QED BY <2>1, <2>2, <2>3
<1>2. ASSUME NEW r \in Releases, Rollback(r) PROVE SuccessorInv'
  BY <1>2 DEF Rollback, TypeInv, ControlInv
<1>3. CASE Register \/ WriteDesc \/ WriteList
  <2>1. cur \in plan /\ Name[cur] \in Packages
    BY <1>3, ReleaseAssumption DEF Register, WriteDesc, WriteList, TypeInv, TypeOK, ControlInv, InHand
  <2>2. /\ \A a \in Packages \ {Name[cur]} : rel'[a] = rel[a]
        /\ plan' = plan /\ replacing' = replacing
        /\ phase \in {"register", "desc", "list"}
    <3>1. CASE Register
      BY <3>1 DEF Register, Forget, tx, TypeInv, TypeOK
    <3>2. CASE WriteDesc
      BY <3>2 DEF WriteDesc, tx, TypeInv, TypeOK
    <3>3. CASE WriteList
      BY <3>3 DEF WriteList
    <3> QED BY <1>3, <3>1, <3>2, <3>3
  <2>3. \A e \in replacing : e[2] \in Packages \ {Name[cur]}
    BY <2>1 DEF PlanInv, Names, TypeInv, TypeOK
  <2> QED BY <2>2, <2>3
<1>4. CASE \/ StopBeforeWriting \/ UnpackFails \/ Finish \/ FinishRetiring \/ Interrupted \/ Unregister
           \/ \E S \in SUBSET Packages : Uninstall(S)
           \/ \E a \in leaving : RetireFiles(a)
           \/ \E part \in SUBSET Paths : RecordStops(part)
  <2>1. phase' \in {"idle", "retire", "unregister"}
    BY <1>4, HowUnpackFails DEF StopBeforeWriting, UnpackStops, Finish, FinishRetiring,
       Interrupted, RecordStops, Unregister, Uninstall, RetireFiles, EndTx
  <2> QED BY <2>1
<1>5. CASE \/ StartRepoBatch \/ CheckConflicts \/ SettleHeld \/ Unpack \/ Prune
           \/ \E r \in batch : HoldAlong(r)
           \/ \E r \in todo : Prepare(r)
           \/ \E r \in later : SkipAur(r) \/ BuildFails(r) \/ Builds(r)
           \/ \E q \in Paths, b \in AdminBytes : AdminEdits(q, b)
           \/ UNCHANGED vars
  <2>1. /\ plan' = plan /\ replacing' = replacing /\ rel' = rel /\ (Underway' => Underway)
    BY <1>5 DEF StartRepoBatch, CheckConflicts, SettleHeld, Unpack, Prune, HoldAlong,
       Prepare, SkipAur, BuildFails, Builds, AdminEdits, vars, tx, db
  <2> QED BY <2>1
<1> QED
  BY <1>1, <1>2, <1>3, <1>4, <1>5 DEF Next

LEMMA LeaveStep ==
  ASSUME Orderly, DepInv, [Next]_vars
  PROVE  LeaveInv'
<1> DEFINE Gone(n) == \E r \in lost : Satisfies(r, n)
<1>0. /\ \A b \in Installed : b \in Packages /\ rel[b] \in Releases /\ Name[rel[b]] = b
      /\ phase \in {"retire", "unregister"} => leaving \subseteq Installed
      /\ DependenciesMet /\ LeaveInv
      /\ phase \notin Working => todo = {}
  BY DEF DepInv, TypeInv, TypeOK, ControlInv, Installed
<1>1. CASE FinishRetiring
  <2>1. /\ phase = "next" /\ phase' = "retire" /\ leaving' = Superseded
        /\ rel' = rel /\ lost' = lost
    BY <1>1 DEF FinishRetiring, db, ghosts
  <2>2. ASSUME NEW b \in Installed, NEW n \in Depends[rel[b]]
        PROVE  Satisfiers(n) \ Superseded # {} \/ Gone(n)
    <3>0. Had(n)
      BY <1>0, <2>1 DEF DependenciesMet, Awaited, InHand, Working
    <3> SUFFICES ASSUME NEW x \in Satisfiers(n), x \in Superseded
                 PROVE  Satisfiers(n) \ Superseded # {}
      BY <3>0 DEF Had
    <3>1. x \in Installed /\ Satisfies(rel[x], n)
      BY DEF Satisfiers
    <3>2. PICK a \in fresh : <<a, x>> \in replacing
      BY DEF Superseded
    <3>3. PICK r \in plan : Name[r] = a /\ rel[a] = r
      <4>1. phase \notin {"retire", "unregister", "desc", "list"}
        BY <2>1
      <4> QED BY <4>1 DEF DepInv, PlanInv
    <3>4. Covers(r, rel[x])
      BY <2>1, <3>1, <3>2, <3>3 DEF DepInv, SuccessorInv, Underway
    <3>5. Satisfies(r, n)
      BY <1>0, <3>1, <3>4 DEF Covers, Needed
    <3>6. a \in Satisfiers(n)
      <4>1. r # NotInstalled /\ a \in Packages
        BY <3>3, ReleaseAssumption, MarkerAssumption DEF DepInv, TypeInv, TypeOK
      <4> QED BY <3>3, <3>5, <4>1 DEF Satisfiers, Installed
    <3>7. a \notin Superseded
      <4>1. a \in Names(plan)
        BY <3>3 DEF Names
      <4>2. \A e \in replacing : e[2] \notin Names(plan)
        BY DEF DepInv, PlanInv
      <4> QED BY <4>1, <4>2 DEF Superseded
    <3> QED BY <3>6, <3>7
  <2> QED BY <2>1, <2>2, SatisfiersKept DEF LeaveInv, Installed
<1>2. ASSUME NEW S \in SUBSET Packages, Uninstall(S) PROVE LeaveInv'
  <2>1. phase = "idle" /\ phase' = "retire" /\ leaving' = S /\ rel' = rel /\ lost' = lost
    BY <1>2 DEF Uninstall, db, ghosts
  <2>2. \A b \in Installed : \A n \in Depends[rel[b]] : Had(n)
    BY <1>0, <2>1 DEF DependenciesMet, Awaited, InHand, Working
  <2>3. \A b \in Installed \ S : \A n \in Depends[rel[b]] : Satisfiers(n) \ S # {} \/ Gone(n)
    BY <1>2, <2>2 DEF Uninstall, Had
  <2> QED BY <2>1, <2>3, SatisfiersKept DEF LeaveInv, Installed
<1>3. ASSUME NEW a \in leaving, RetireFiles(a) PROVE LeaveInv'
  <2>1. /\ phase = "retire" /\ phase' = "unregister" /\ leaving' = leaving
        /\ rel' = rel /\ lost' = lost /\ cur' = rel[a] /\ a \in DependentsFirst(leaving)
    BY <1>3 DEF RetireFiles, tx, db
  <2>2. Name[rel[a]] = a
    BY <1>0, <2>1
  <2>3. \A b \in leaving \ {a} : ~Needs(rel[b], rel[a])
    BY <1>0, <2>1, FirstIsNotNeeded DEF DepInv
  <2>4. \A b \in Installed \ leaving : \A n \in Depends[rel[b]] :
          Satisfiers(n) \ leaving # {} \/ Gone(n)
    BY <1>0, <2>1 DEF LeaveInv
  <2> QED BY <2>1, <2>2, <2>3, <2>4, SatisfiersKept DEF LeaveInv, Installed
<1>4. CASE Unregister
  <2> DEFINE a == Name[cur]
  <2>1. /\ phase = "unregister" /\ rel' = [rel EXCEPT ![a] = NotInstalled] /\ lost' = lost
        /\ phase' = "idle" \/ (phase' = "retire" /\ leaving' = leaving \ {a})
        /\ a \in leaving
    BY <1>4 DEF Unregister, Forget, EndTx, DepInv, TypeInv, ControlInv
  <2>2. SUFFICES ASSUME phase' = "retire", NEW b \in Packages, rel'[b] # NotInstalled,
                        b \notin leaving', NEW n \in Depends[rel'[b]], ~Gone(n)
                 PROVE  \E x \in Packages : /\ rel'[x] # NotInstalled /\ Satisfies(rel'[x], n)
                                            /\ x \notin leaving'
    BY <2>1 DEF LeaveInv, Satisfiers, Installed
  <2>3. b # a /\ rel'[b] = rel[b]
    BY <2>1, <2>2 DEF DepInv, TypeInv, TypeOK
  <2>4. PICK x \in Satisfiers(n) : x \notin leaving
    BY <2>1, <2>2, <2>3 DEF DepInv, LeaveInv, Installed
  <2>5. x # a /\ x \in Packages /\ rel[x] # NotInstalled /\ Satisfies(rel[x], n)
    BY <2>1, <2>4 DEF Satisfiers, Installed
  <2>6. rel'[x] = rel[x]
    BY <2>1, <2>5 DEF DepInv, TypeInv, TypeOK
  <2> QED BY <2>1, <2>2, <2>4, <2>5, <2>6
<1>5. CASE UNCHANGED vars
  BY <1>0, <1>5, SatisfiersKept DEF LeaveInv, Installed, vars, tx, db, inhand, ghosts
<1>6. ASSUME NEW q \in Paths, NEW b \in AdminBytes, AdminEdits(q, b) PROVE LeaveInv'
  BY <1>0, <1>6, SatisfiersKept DEF LeaveInv, Installed, AdminEdits, tx, db, inhand, ghosts
<1>7. CASE \/ StopBeforeWriting \/ StartRepoBatch \/ CheckConflicts \/ SettleHeld
           \/ Unpack \/ UnpackFails \/ Prune \/ Register \/ WriteDesc \/ WriteList
           \/ Finish \/ Interrupted
           \/ \E S \in SUBSET Releases : Resolve(S)
           \/ \E r \in Releases : Rollback(r)
           \/ \E r \in batch : HoldAlong(r)
           \/ \E r \in todo : Prepare(r)
           \/ \E part \in SUBSET Paths : RecordStops(part)
           \/ \E r \in later : SkipAur(r) \/ BuildFails(r) \/ Builds(r)
  <2>1. phase' \notin {"retire", "unregister"}
    BY <1>7, HowUnpackFails DEF StopBeforeWriting, StartRepoBatch, CheckConflicts,
       SettleHeld, Unpack, UnpackStops, Prune, Register, WriteDesc, WriteList,
       RecordStops, Finish, Interrupted, Resolve, Rollback, HoldAlong, Prepare, SkipAur,
       BuildFails, Builds, EndTx
  <2> QED BY <2>1 DEF LeaveInv
<1> QED
  BY <1>1, <1>2, <1>3, <1>4, <1>5, <1>6, <1>7 DEF Next

LEMMA MetStep ==
  ASSUME Orderly, DepInv, [Next]_vars
  PROVE  DependenciesMet'
<1>0. /\ rel \in [Packages -> Releases \cup {NotInstalled}] /\ DependenciesMet
      /\ phase \notin Working => todo = {}
  BY DEF DepInv, TypeInv, TypeOK, ControlInv
<1>1. CASE Register
  <2>1. /\ phase = "register" /\ phase' = "desc" /\ cur' = cur /\ todo' = todo
        /\ rel' = [rel EXCEPT ![Name[cur]] = NotInstalled]
    BY <1>1 DEF Register, Forget, inhand
  <2> SUFFICES ASSUME NEW b \in Packages, rel'[b] # NotInstalled, NEW n \in Depends[rel'[b]]
               PROVE  Had(n)' \/ Satisfies(cur, n) \/ \E s \in todo \cap Aur : Satisfies(s, n)
    BY <2>1 DEF DependenciesMet, Installed, Awaited
  <2>2. rel'[b] = rel[b] /\ rel[b] \in Releases /\ b \in Installed
    BY <1>0, <2>1 DEF Installed
  <2>3. n \in Needed /\ (Had(n) \/ \E s \in todo \cap Aur : Satisfies(s, n))
    BY <1>0, <2>1, <2>2 DEF DependenciesMet, Needed, Awaited
  <2> QED BY <1>1, <2>3, RegisterLeaves DEF DepInv
<1>2. CASE WriteDesc
  <2>1. /\ phase = "desc" /\ phase' = "list" /\ cur' = cur /\ todo' = todo /\ cur \in Releases
        /\ rel' = [rel EXCEPT ![Name[cur]] = cur]
        /\ Have(cur, {cur} \cup (todo \cap Aur))
    BY <1>2 DEF WriteDesc, inhand, DepInv, TypeInv, TypeOK, ControlInv, NeedInv, InHand
  <2> SUFFICES ASSUME NEW b \in Packages, rel'[b] # NotInstalled, NEW n \in Depends[rel'[b]]
               PROVE  Had(n)' \/ \E s \in todo \cap Aur : Satisfies(s, n)
    BY <2>1 DEF DependenciesMet, Installed, Awaited
  <2>2. n \in Needed /\ (Had(n) \/ Satisfies(cur, n) \/ \E s \in todo \cap Aur : Satisfies(s, n))
    <3>1. CASE b = Name[cur]
      BY <1>0, <2>1, <3>1 DEF Have, Needed
    <3>2. CASE b # Name[cur]
      <4>1. rel'[b] = rel[b] /\ rel[b] \in Releases /\ b \in Installed
        BY <1>0, <2>1, <3>2 DEF Installed
      <4> QED BY <1>0, <2>1, <4>1 DEF DependenciesMet, Needed, Awaited
    <3> QED BY <3>1, <3>2
  <2> QED BY <1>2, <2>2, DescGives DEF DepInv
<1>3. CASE WriteList
  <2>1. /\ phase = "list" /\ phase' \in {"next", "install"} /\ rel' = rel
        /\ todo' = todo \ {cur}
    BY <1>3 DEF WriteList
  <2> SUFFICES ASSUME NEW b \in Packages, rel[b] # NotInstalled, NEW n \in Depends[rel[b]]
               PROVE  Had(n)' \/ \E s \in (todo \ {cur}) \cap Aur : Satisfies(s, n)
    BY <2>1 DEF DependenciesMet, Installed, Awaited
  <2>2. Had(n) \/ \E s \in todo \cap Aur : Satisfies(s, n)
    BY <1>0, <2>1 DEF DependenciesMet, Installed, Awaited
  <2> QED BY <1>3, <2>2, ListedGives DEF DepInv
<1>4. CASE Unregister
  <2> DEFINE a == Name[cur]
  <2>1. /\ phase = "unregister" /\ rel' = [rel EXCEPT ![a] = NotInstalled] /\ a \in leaving
        /\ cur = rel[a] /\ lost' = lost
    BY <1>4 DEF Unregister, Forget, DepInv, TypeInv, ControlInv, LeaveInv
  <2>2. SUFFICES ASSUME NEW b \in Packages, rel'[b] # NotInstalled, NEW n \in Depends[rel'[b]],
                        ~\E r \in lost : Satisfies(r, n)
                 PROVE  \E x \in Packages : rel'[x] # NotInstalled /\ Satisfies(rel'[x], n)
    BY <2>1 DEF DependenciesMet, Had, Satisfiers, Installed
  <2>3. b # a /\ rel'[b] = rel[b] /\ b \in Installed /\ n \in Depends[rel[b]]
    BY <1>0, <2>1, <2>2 DEF Installed
  <2>4. Satisfiers(n) # {}
    <3>1. Awaited = {}
      BY <1>0, <2>1 DEF Awaited, InHand, Working
    <3> QED BY <1>0, <2>2, <2>3, <3>1 DEF DependenciesMet, Had
  <2>5. \E x \in Satisfiers(n) : x # a
    <3>1. CASE b \in leaving
      <4>1. ~Needs(rel[b], rel[a])
        BY <2>1, <2>3, <3>1 DEF DepInv, LeaveInv
      <4>2. a \notin Satisfiers(n)
        BY <2>3, <4>1 DEF Satisfiers, Needs
      <4> QED BY <2>4, <4>2
    <3>2. CASE b \notin leaving
      BY <2>1, <2>2, <2>3, <3>2 DEF DepInv, LeaveInv
    <3> QED BY <3>1, <3>2
  <2>6. PICK x \in Satisfiers(n) : x # a
    BY <2>5
  <2>7. x \in Packages /\ rel[x] # NotInstalled /\ Satisfies(rel[x], n) /\ rel'[x] = rel[x]
    BY <1>0, <2>1, <2>6 DEF Satisfiers, Installed
  <2> QED BY <2>7
<1>5. CASE \/ UnpackFails \/ Interrupted
           \/ \E part \in SUBSET Paths : RecordStops(part)
  <2>1. rel' = rel /\ lost' = lost \cup CutOff
    BY <1>5, HowUnpackFails DEF UnpackStops, Interrupted, RecordStops, db
  <2> SUFFICES ASSUME NEW b \in Installed, NEW n \in Depends[rel[b]]
               PROVE  Had(n)'
    BY <2>1 DEF DependenciesMet, Installed
  <2>2. CASE Had(n)
    BY <2>1, <2>2, HadKept
  <2>3. CASE ~Had(n)
    <3>1. PICK s \in Awaited : Satisfies(s, n)
      BY <1>0, <2>3 DEF DependenciesMet
    <3>2. s \in CutOff
      BY <2>3, <3>1 DEF CutOff, Had
    <3> QED BY <2>1, <3>1, <3>2 DEF Had
  <2> QED BY <2>2, <2>3
<1>6. CASE \/ StopBeforeWriting \/ StartRepoBatch \/ CheckConflicts \/ SettleHeld
           \/ Unpack \/ Prune \/ Finish \/ FinishRetiring \/ UNCHANGED vars
           \/ \E S \in SUBSET Releases : Resolve(S)
           \/ \E r \in Releases : Rollback(r)
           \/ \E r \in batch : HoldAlong(r)
           \/ \E r \in todo : Prepare(r)
           \/ \E r \in later : SkipAur(r) \/ BuildFails(r) \/ Builds(r)
           \/ \E S \in SUBSET Packages : Uninstall(S)
           \/ \E a \in leaving : RetireFiles(a)
           \/ \E q \in Paths, b \in AdminBytes : AdminEdits(q, b)
  <2>1. rel' = rel /\ lost' = lost
    BY <1>6 DEF StopBeforeWriting, StartRepoBatch, CheckConflicts, SettleHeld, Unpack,
       Prune, Finish, FinishRetiring, Resolve, Rollback, HoldAlong, Prepare, SkipAur,
       BuildFails, Builds, Uninstall, RetireFiles, AdminEdits, vars, db, ghosts
  <2>2. /\ phase = "desc" => phase' = phase /\ cur' = cur
        /\ phase \in Working => todo' = todo
    BY <1>6 DEF StopBeforeWriting, StartRepoBatch, CheckConflicts, SettleHeld, Unpack,
       Prune, Finish, FinishRetiring, Resolve, Rollback, HoldAlong, Prepare, SkipAur,
       BuildFails, Builds, Uninstall, RetireFiles, AdminEdits, vars, inhand, InHand, Working
  <2>3. Awaited \subseteq Awaited'
    BY <1>0, <2>2 DEF Awaited, InHand, Working
  <2> QED BY <1>0, <2>1, <2>3, HadKept DEF DependenciesMet, Installed
<1> QED
  BY <1>1, <1>2, <1>3, <1>4, <1>5, <1>6 DEF Next

\* Whatever is held back or fails to build, and wherever rvn stops, nothing is
\* installed without what it depends on, in every catalogue that is orderly: at
\* most it waits for the package whose record is being replaced, or for one of
\* its own build, and goes without if that one is cut off.
THEOREM DependenciesAlwaysMet ==
  ASSUME Orderly
  PROVE  Spec => []DependenciesMet
<1>1. DepInv /\ [Next]_vars => DepInv'
  BY TypeStep, PlanStep, NeedStep, SuccessorStep, LeaveStep, MetStep DEF DepInv
<1>2. Init => DepInv
  BY TypeInit, OwnerInit
  DEF Init, DepInv, OwnerInv, DependenciesMet, NeedInv, SuccessorInv, LeaveInv,
      Underway, InHand, Working, Installed
<1>3. DepInv => DependenciesMet
  BY DEF DepInv
<1> QED BY <1>1, <1>2, <1>3, PTL DEF Spec
=============================================================================
