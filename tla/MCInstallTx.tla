----------------------------- MODULE MCInstallTx -----------------------------
(***************************************************************************)
(* Package catalogues for TLC.  A release is named after its package and   *)
(* its version; each catalogue is small and makes one kind of neighbours   *)
(* meet: files that change hands, a replaced package, a rejected payload,  *)
(* AUR builds on top of repository packages.                                *)
(***************************************************************************)
EXTENDS InstallTx, TLC

NewerIs2 == [r \in {"A1", "A2", "B1", "B2", "C1", "D1", "E1"} |->
               IF r \in {"A2", "B2"} THEN 2 ELSE 1]
PackageOf == [r \in {"A1", "A2", "B1", "B2", "C1", "D1", "E1"} |->
               CASE r \in {"A1", "A2"} -> "A"
                 [] r \in {"B1", "B2"} -> "B"
                 [] r = "C1" -> "C"
                 [] r = "D1" -> "D"
                 [] r = "E1" -> "E"]
PickName(R) == [r \in R |-> PackageOf[r]]
PickVersion(R) == [r \in R |-> NewerIs2[r]]
ShippedAs(R) == [r \in R |-> [p \in {"conf", "lib", "bin", "new"} |-> r]]

\* Hand-over and replacement: A2 lets go of "lib", which B2 takes while it
\* needs A; C1 replaces B and ships its "bin"; D1, from the AUR, replaces B too
\* and ships "lib"; E1 comes out of the same build, goes in after D1 and is needed
\* by it.  A2 also brings "new", where a directory may be in the way:
\* what counts on A2 then has to wait with it.
HandNames == {"A", "B", "C", "D", "E"}
HandReleases == {"A1", "A2", "B1", "B2", "C1", "D1", "E1"}
HandPaths == {"conf", "lib", "bin", "new"}
HandBytes == HandReleases \cup {"edit"}
HandName == PickName(HandReleases)
HandVersion == PickVersion(HandReleases)
HandShips == [r \in HandReleases |->
  CASE r = "A1" -> {"conf", "lib"}
    [] r = "A2" -> {"conf", "new"}
    [] r = "B1" -> {"bin"}
    [] r = "B2" -> {"bin", "lib"}
    [] r = "C1" -> {"bin"}
    [] r = "D1" -> {"lib"}
    [] r = "E1" -> {}]
HandBackup == [r \in HandReleases |-> HandShips[r] \cap {"conf"}]
HandShipped == ShippedAs(HandReleases)
HandDepends == [r \in HandReleases |->
  CASE r \in {"B2", "E1"} -> {"A"}
    [] r = "D1" -> {"A", "E"}
    [] OTHER -> {}]
HandProvides == [r \in HandReleases |-> IF r \in {"C1", "D1"} THEN {"B"} ELSE {}]
HandReplaces == HandProvides
HandBase == [r \in HandReleases |-> IF r = "E1" THEN "D1" ELSE r]
HandRank == [r \in HandReleases |-> IF r = "E1" THEN 1 ELSE 0]
HandDisks == {[p \in HandPaths |-> IF p = "new" THEN x ELSE Absent] : x \in {Absent, Obstacle}}

\* Configuration: A1's "old" is dropped by A2, "acct" is an account file that
\* the image may have put on disk before any package came.
ConfNames == {"A"}
ConfReleases == {"A1", "A2"}
ConfPaths == {"conf", "old", "acct"}
ConfBytes == ConfReleases \cup {"image", "edit", "edit2"}
ConfName == PickName(ConfReleases)
ConfVersion == PickVersion(ConfReleases)
ConfShips == [r \in ConfReleases |->
  CASE r = "A1" -> {"conf", "old", "acct"}
    [] r = "A2" -> {"conf", "acct"}]
ConfBackup == [r \in ConfReleases |-> ConfShips[r]]
ConfShipped == [r \in ConfReleases |-> [p \in ConfPaths |-> r]]
ConfNone == [r \in ConfReleases |-> {}]
ConfBase == [r \in ConfReleases |-> r]
ConfRank == [r \in ConfReleases |-> 0]
ConfDisks == {[p \in ConfPaths |-> IF p = "acct" THEN x ELSE Absent] : x \in {Absent, "image"}}

\* Both catalogues are orderly, so that DependenciesMet can be asked of them.
ASSUME CataloguesAreOrderly == Orderly
=============================================================================
