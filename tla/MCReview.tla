----------------------------- MODULE MCReview -----------------------------
(***************************************************************************)
(* A package of two versions with an account file and another one.          *)
(***************************************************************************)
EXTENDS Review, TLC

TwoVersions == {1, 2}
Shipping == [v \in TwoVersions |-> [f \in {"conf", "acct"} |->
               IF f = "acct" THEN "default" ELSE IF v = 1 THEN "first" ELSE "second"]]
\* The image came with an account file.
Image == [f \in {"conf", "acct"} |-> IF f = "acct" THEN "mine" ELSE None]
\* Installed, reinstalled, upgraded.
Upgrades == {<<None, 1>>, <<1, 2>>, <<2, 2>>}
AnyMove == ((TwoVersions \cup {None}) \X (TwoVersions \cup {None})) \ {<<None, None>>}
=============================================================================
