---- MODULE MCRepository ----
(* Three archives of one package, whose names sort unlike their versions,  *)
(* one of another package, and a truncated download.                       *)
EXTENDS Repository, TLC

Two == Permutations(Tools)

V(a, b, rel) == Version(0, Part(<<Num(0, a), Num(1, b)>>), {Part(<<Num(0, rel)>>)})

MCOrder == <<"bar-1.0", "cut-1.0", "foo-1.10", "foo-1.9">>
MCPkg == [f \in {"bar-1.0", "cut-1.0", "foo-1.10", "foo-1.9"} |->
  CASE f = "bar-1.0" -> [name |-> "bar", version |-> V(1, 0, 1)]
    [] f = "cut-1.0" -> [name |-> "foo", version |-> V(2, 0, 1)]
    [] f = "foo-1.10" -> [name |-> "foo", version |-> V(1, 10, 1)]
    [] f = "foo-1.9" -> [name |-> "foo", version |-> V(1, 9, 1)]]

Command(fs, add, signing) ==
  [build |-> fs, add |-> add, signing |-> signing, files |-> signing # "never"]
MCCommands ==
  {Command(<<"foo-1.10", "foo-1.9">>, FALSE, "configured"),
   Command(<<"bar-1.0", "foo-1.9">>, TRUE, "never"), Command(<<>>, TRUE, "key")}

(***************************************************************************)
(* The order on a sample: versions of up to three segments, releases or    *)
(* none.  It is the same read from either side, and a total preorder among *)
(* the versions that all carry a release and end in no separator.          *)
(***************************************************************************)
SomeSegments ==
  {Num(0, 1), Num(0, 2), Num(1, 0), Num(1, 1), Num(2, 0), Word(0, 1), Word(0, 2), Word(1, 1)}
SomeParts == {Part(<<Num(0, 1)>> \o s) : s \in UNION {[1..n -> SomeSegments] : n \in 0..2}}
Sample == {Version(0, p, r) : p \in SomeParts, r \in {{}, {Part(<<Num(0, 1)>>)}}}
            \cup {Version(1, Part(<<Num(0, 0)>>), {}),
                  Version(0, [Part(<<Num(0, 1)>>) EXCEPT !.trailing = 1], {})}

ASSUME SameFromEitherSide == \A a, b \in Sample : Vercmp(a, b) = -Vercmp(b, a)
ASSUME Transitive == \A a, b, c \in {v \in Sample : v \in Released} :
  Vercmp(a, b) <= 0 /\ Vercmp(b, c) <= 0 => Vercmp(a, c) <= 0

(* What version.rs tests: 1.0a and 1.0rc1 come before 1.0, 1.0.1 after it, *)
(* 1..0 after 1.0, a number before a word, and an epoch before them all.   *)
One(more) == Part(<<Num(0, 1), Num(1, 0)>> \o more)
ASSUME Documented ==
  /\ Rpmvercmp(One(<<Word(0, 1)>>), One(<<>>)) = -1
  /\ Rpmvercmp(One(<<Word(0, 3), Num(0, 1)>>), One(<<>>)) = -1
  /\ Rpmvercmp(One(<<Num(1, 1)>>), One(<<>>)) = 1
  /\ Rpmvercmp(Part(<<Num(0, 1), Num(2, 0)>>), One(<<>>)) = 1
  /\ Rpmvercmp(Part(<<Num(0, 1), Num(1, 5)>>), Part(<<Num(0, 1), Word(1, 2)>>)) = 1
  /\ Vercmp(Version(1, One(<<>>), {}), Version(0, Part(<<Num(0, 2)>>), {})) = 1

(* The archives of this instance carry finished releases.                  *)
ASSUME AllReleased == \A f \in Names : Pkg[f].version \in Released
====
