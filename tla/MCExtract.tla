---- MODULE MCExtract ----
(* Roots and archives small enough to go through, one for each thing an    *)
(* entry may meet.                                                         *)
EXTENDS Extract

MCWaiting == [n \in {"usr", "lib", "doc", "conf", "x", "y", "opt"} |-> n \o ".pacnew"]

usr == <<"usr">>  lib == <<"usr", "lib">>  x == <<"usr", "lib", "x">>  y == <<"usr", "lib", "y">>
short == <<"lib">>  doc == <<"doc">>  conf == <<"conf">>  opt == <<"opt">>

File(p, d) == [path |-> p, kind |-> "file", data |-> d, to |-> <<>>]
D(p) == [path |-> p, kind |-> "dir", data |-> "", to |-> <<>>]
Link(p, t) == [path |-> p, kind |-> "link", data |-> "", to |-> t]
Hard(p, t) == [path |-> p, kind |-> "hard", data |-> "", to |-> t]

Held(e) == [kind |-> e.kind, data |-> e.data, to |-> e.to]
RootWith(es) == [p \in {<<>>} \cup {e.path : e \in es} |->
                   IF p = <<>> THEN Dir ELSE Held(CHOOSE e \in es : e.path = p)]

Job(archive, es) ==
  [archive |-> archive, disk |-> RootWith(es), backup |-> {conf}, mine |-> {},
   owners |-> [files |-> {}, dirs |-> {}], foreign |-> {}, near |-> {}]

Whole == <<D(usr), D(lib), File(x, "new"), Hard(y, x), Link(doc, lib), File(conf, "new")>>
Old == {D(usr), D(lib), File(x, "old"), D(doc), File(conf, "mine")}

(* A package rvn built itself, as its manifest describes it; the metadata  *)
(* members are read elsewhere.                                             *)
B == INSTANCE Build
rank == [n \in {"usr", "lib", "doc", "conf", "x", "y", "opt"} |->
  CHOOSE k \in 1..7 : <<"conf", "doc", "lib", "opt", "usr", "x", "y">>[k] = n]

Manifest(ds, fs, ls) ==
  [directories |-> {[dest |-> p] : p \in ds}, files |-> {[dest |-> p, src |-> "new"] : p \in fs},
   symlinks |-> {[dest |-> p, target |-> lib] : p \in ls}, script |-> TRUE]
Component == Manifest({doc}, {x, <<".">> \o conf}, {short})

Raw == {<<"usr">>, <<"usr", "lib">>, <<"usr", ".", "x">>, <<"usr", "..", "x">>, <<".">>, <<"usr", "x", "y">>}
Manifests == {Manifest(d, f, l) : d \in SUBSET Raw, f \in SUBSET Raw, l \in {{}, {short}, {x}}}

(* Whatever manifest is accepted and staged: the archive puts a directory  *)
(* in front of what is in it, records every directory it needs, has no     *)
(* path an installation would refuse, and the .MTREE describes all of it   *)
(* but itself.                                                             *)
ASSUME BuildsWhatUnpacks ==
  \A m \in {n \in Manifests : B!Accepted(n) /\ B!Stageable(n)} :
    \E archive \in {B!Archive(m, rank)} :
      /\ \A i, j \in DOMAIN archive : IsStrictPrefix(archive[i].path, archive[j].path) => i < j
      /\ \A i \in DOMAIN archive : \A p \in B!Parents(archive[i].path) :
           \E j \in DOMAIN archive : archive[j].path = p
      /\ \A i \in DOMAIN archive : archive[i].path # <<>> /\ ~Contains(archive[i].path, "..")
      /\ {archive[i] : i \in DOMAIN archive} \ {B!Member(".MTREE")} = ToSet(B!Mtree(m, rank))

MCScenarios ==
  { \* a first install, beside another process
    [Job(Whole, {}) EXCEPT !.near = {usr, lib, x, doc, conf}],
    [Job(<<File(x, "new"), File(conf, "new")>>, {D(usr)}) EXCEPT
       !.near = {lib, x, y, conf, PacnewPath(conf)}],
    Job(B!Entries(Component, rank), {}),
    \* an upgrade over an empty directory and edited configuration
    [Job(Whole, Old \cup {File(PacnewPath(conf), "older")}) EXCEPT
       !.mine = {x, conf}, !.near = {y, <<"doc", "x">>}],
    Job(Whole, {D(usr), D(lib), File(y, "old"), Link(doc, usr)}),
    Job(<<Hard(y, x), File(x, "new")>>, {D(usr), D(lib), Link(y, x)}),
    \* configuration that turns into a link, or into a hard link
    Job(<<File(x, "new"), Link(conf, x)>>, Old),
    Job(<<File(x, "mine"), Link(conf, x)>>, Old),
    Job(<<File(conf, "mine"), File(y, "new")>>, Old \cup {File(PacnewPath(conf), "older")}),
    Job(<<Hard(conf, x), File(x, "new")>>, Old),
    Job(<<Hard(conf, x), File(x, "mine")>>, Old),
    \* a usrmerge root, its link already right
    Job(<<Link(short, lib), File(<<"lib", "x">>, "new"), Hard(y, <<"lib", "x">>)>>,
        {D(usr), D(lib), Link(short, lib)}),
    \* what the pre-flight refuses
    Job(<<File(x, "new"), Link(short, lib)>>, {D(short), File(<<"lib", "y">>, "old")}),
    Job(<<File(x, "new"), D(opt)>>, {File(opt, "old")}),
    Job(<<File(conf, "new"), File(x, "new")>>, {File(usr, "old")}),
    [Job(<<File(conf, "new"), Link(doc, lib)>>, Old) EXCEPT
       !.owners = [files |-> {}, dirs |-> {doc}], !.foreign = {doc}],
    [Job(<<File(conf, "new"), File(x, "new")>>, Old) EXCEPT
       !.owners = [files |-> {x}, dirs |-> {}], !.foreign = {x}],
    Job(<<File(<<>>, "new"), File(x, "new")>>, Old),
    \* what it lets pass, and the extraction refuses
    Job(<<File(conf, "new"), File(y, "new"), File(doc, "new")>>, Old),
    [Job(<<File(y, "new"), Link(lib, doc)>>, Old) EXCEPT !.mine = {lib}],
    Job(<<File(y, "new"), Hard(doc, y)>>, Old),
    \* a package that takes over, of which the old one's file is gone
    [Job(<<File(y, "new"), D(opt), Hard(conf, y), File(doc, "new")>>, Old) EXCEPT
       !.mine = {y, opt}, !.foreign = {y, opt}],
    \* and whose empty directory gives way to a link
    [Job(<<Link(doc, lib), File(opt, "new")>>, Old \cup {D(opt)}) EXCEPT
       !.mine = {doc}, !.foreign = {doc}] }
====
