------------------------------ MODULE Resolver ------------------------------
(***************************************************************************)
(* The pure part of rvn's planning: which packages an install or an update *)
(* brings in (resolve.rs, upgrade.rs, provides.rs) and which ones an       *)
(* uninstall takes (remove.rs).                                            *)
(*                                                                         *)
(* A release is one version of one package as some database lists it:      *)
(*   name, ver, from ("repo", "aur", "local" or "unknown"), url,           *)
(*   depends and make (sequences of dependencies), conflicts and replaces  *)
(*   (sets of dependencies), provides (a set of <<name, version>>).        *)
(* A dependency is [name, ok]: ok is the set of versions that satisfy it,  *)
(* AnyVersion when it names no version.  Version 0 is a provide without a version.*)
(*                                                                         *)
(* A world w is what one resolution looks at:                              *)
(*   sync   the repositories' packages, all databases in order             *)
(*   aur    the packages of the AUR (empty with --repo-only)               *)
(*   local  the installed releases, in the order the HashMap yields them   *)
(*   order  that order, as a sequence of package names                     *)
(*   system what the image provides without a package                      *)
(*   ignore IgnorePkg     force  what must be rebuilt     held  HoldPkg    *)
(***************************************************************************)
EXTENDS Naturals, Sequences, SequencesExt, FiniteSetsExt

CONSTANTS None,        \* no release
          AnyVersion,         \* the versions an unversioned dependency accepts
          Toolchain    \* dependencies of makepkg itself, as a sequence

First(seq, Test(_)) ==
    LET at == {i \in DOMAIN seq : Test(seq[i])}
    IN  IF at = {} THEN None ELSE seq[Min(at)]

-----------------------------------------------------------------------------
(* pkg.rs: what satisfies a dependency *)

ProvideSatisfies(p, d) == p[1] = d.name /\ (d.ok = AnyVersion \/ p[2] \in d.ok \ {0})

Satisfies(r, d) == \/ r.name = d.name /\ r.ver \in d.ok
                   \/ \E p \in r.provides : ProvideSatisfies(p, d)

\* An installed release and one of the AUR's under its name are the same
\* package when the record says so, or, without a record, by their URL.
SameAurPackage(r, candidate) == \/ r.from = "aur"
                                \/ r.from = "unknown" /\ r.url = candidate.url

Satisfier(w, d) == First(w.local, LAMBDA r : Satisfies(r, d))

Installed(w, n) == First(w.local, LAMBDA r : r.name = n)

SystemSatisfies(w, d) == \E p \in w.system : ProvideSatisfies(p, d)

-----------------------------------------------------------------------------
(* resolve.rs: finding a package *)

SyncGet(w, n) == First(w.sync, LAMBDA r : r.name = n)

AurGet(w, n) == IF \E r \in w.aur : r.name = n
                THEN CHOOSE r \in w.aur : r.name = n ELSE None

AurProvider(w, d) == IF \E r \in w.aur : Satisfies(r, d)
                     THEN CHOOSE r \in w.aur : Satisfies(r, d) ELSE None

Versions(seq) == SetToSortSeq({r.ver : r \in ToSet(seq)}, LAMBDA x, y : x > y)
BestFirst(seq) ==
    FlattenSeq([i \in DOMAIN Versions(seq) |->
                   SelectSeq(seq, LAMBDA r : r.ver = Versions(seq)[i])])

\* The exact name first, then the providers from the best version down; the
\* earlier database breaks a tie.
Candidates(w, d) ==
    SelectSeq(<<SyncGet(w, d.name)>>, LAMBDA r : r # None /\ r.ver \in d.ok)
    \o BestFirst(SelectSeq(w.sync, LAMBDA r : r.name # d.name /\ Satisfies(r, d)))

Clash(a, b) == \E c \in a.conflicts : c.name # a.name /\ Satisfies(b, c)

CompatibleWithPlan(r, seen) ==
    \A o \in ToSet(seen) : o.name # r.name => ~Clash(r, o) /\ ~Clash(o, r)

ReplacedBy(r, old) == \E d \in r.replaces : Satisfies(old, d)

ClashesWithInstalled(w, r) ==
    \E c \in r.conflicts :
        LET old == Satisfier(w, c)
        IN  c.name # r.name /\ old # None /\ old.name # r.name /\ ~ReplacedBy(r, old)

\* One that fits both the plan and the machine, one that fits the plan, or
\* simply the first.
Preferred(w, found, fits) ==
    Head(SelectSeq(fits, LAMBDA r : ~ClashesWithInstalled(w, r)) \o fits \o found)

Choose(w, d, seen, found, named) ==
    IF found # <<>>
    THEN Preferred(w, found, SelectSeq(found, LAMBDA r : CompatibleWithPlan(r, seen)))
    ELSE IF named # None /\ named.ver \in d.ok THEN named ELSE AurProvider(w, d)

\* The AUR only when the repositories have nothing.
Find(w, d, seen) == Choose(w, d, seen, Candidates(w, d), AurGet(w, d.name))

\* A newer version, from a repository or, for what none carries, the AUR.
UpgradeCandidate(w, n) ==
    LET old == Installed(w, n)
        new == IF SyncGet(w, n) # None THEN SyncGet(w, n) ELSE AurGet(w, n)
    IN  IF old # None /\ new # None /\ new.ver > old.ver THEN new ELSE None

-----------------------------------------------------------------------------
(* resolve.rs: the walk.  st is the plan under way: install, a sequence of  *)
(* [pkg, why]; seen, the releases chosen so far; stack, the names being     *)
(* visited; checked, the installed names already repaired; missing; cycles. *)

\* What a release needs, each with the reason its provider would be given.
\* Build-time needs count for packages rvn compiles, makepkg's own among them.
Needs(r) ==
    LET want(ds, why) == [i \in DOMAIN ds |-> [dep |-> ds[i], why |-> why]]
        make == [i \in DOMAIN r.make |->
                    [dep |-> r.make[i],
                     why |-> IF \E t \in ToSet(Toolchain) : t.name = r.make[i].name
                             THEN "toolchain" ELSE "dependency"]]
    IN  want(r.depends, "dependency")
        \o IF r.from = "aur" THEN make \o want(Toolchain, "toolchain") ELSE <<>>

RECURSIVE Visit(_, _, _, _), Repair(_, _, _)

\* One need of the package being visited.  What is installed needs no work, as
\* long as it is itself whole.
Pull(w, st, child, need) ==
    IF child = None THEN [st EXCEPT !.missing = @ \cup {need.dep.name}]
    ELSE Visit(w, st, child, need.why)

FirstRead(w, rs) ==
    CHOOSE r \in rs : \A o \in rs : SelectInSeq(w.order, LAMBDA n : n = r.name)
                                      <= SelectInSeq(w.order, LAMBDA n : n = o.name)

Meet(w, st, need, old, chosen) ==
    IF old # None THEN Repair(w, st, old)
    ELSE IF SystemSatisfies(w, need.dep) THEN st
    ELSE IF chosen # {} THEN Visit(w, st, FirstRead(w, chosen), "dependency")
    ELSE Pull(w, st, Find(w, need.dep, st.seen), need)

Require(w, st, need) ==
    Meet(w, st, need, Satisfier(w, need.dep), {r \in ToSet(st.seen) : Satisfies(r, need.dep)})

\* Mutant: a package is emitted before what it needs.
VisitDependentFirst(w, st, r, why) ==
    IF r.name \in w.ignore \/ \E s \in ToSet(st.seen) : s.name = r.name THEN st
    ELSE FoldLeft(LAMBDA s, need : Require(w, s, need),
                  [st EXCEPT !.seen = Append(@, r), !.install = Append(@, [pkg |-> r, why |-> why])],
                  Needs(r))

Opened(st, r) == [st EXCEPT !.seen = Append(@, r), !.stack = Append(@, r.name)]
Closed(st, r, why) == [st EXCEPT !.stack = Front(@), !.install = Append(@, [pkg |-> r, why |-> why])]
OnStack(st, r) == SelectInSeq(st.stack, LAMBDA n : n = r.name)

\* A package on the stack closes a cycle, which is noted and broken here.
Visit(w, st, r, why) ==
    IF OnStack(st, r) # 0
    THEN [st EXCEPT !.cycles = @ \cup {{st.stack[i] : i \in OnStack(st, r)..Len(st.stack)}}]
    ELSE IF r.name \in w.ignore \/ \E s \in ToSet(st.seen) : s.name = r.name THEN st
    ELSE Closed(FoldLeft(LAMBDA s, need : Require(w, s, need), Opened(st, r), Needs(r)), r, why)

\* Mutant: what is installed is taken to be whole.
RepairNothing(w, st, old) == st

RepairNeed(w, s, d, next) ==
    IF next # None THEN Repair(w, s, next)
    ELSE IF SystemSatisfies(w, d) \/ \E r \in ToSet(s.seen) : Satisfies(r, d) THEN s
    ELSE LET child == Find(w, d, s.seen)
         IN  IF child = None THEN s ELSE Visit(w, s, child, "dependency")

\* What an installed package needs and the system does not have is pulled in;
\* what nothing provides is left alone.
Repair(w, st, old) ==
    IF old.name \in st.checked \/ \E s \in ToSet(st.seen) : s.name = old.name THEN st
    ELSE FoldLeft(LAMBDA s, d : RepairNeed(w, s, d, Satisfier(w, d)),
                  [st EXCEPT !.checked = @ \cup {old.name}], old.depends)

-----------------------------------------------------------------------------
(* resolve.rs: the plan for the targets, a sequence of dependencies *)

NoPlan == [install |-> <<>>, seen |-> <<>>, stack |-> <<>>, checked |-> {}, missing |-> {},
           cycles |-> {}, chosen |-> {}, satisfied |-> {}, refused |-> {},
           replacing |-> {}, conflicts |-> {}]

Chosen(w, st, d, new) ==
    IF new = None THEN [st EXCEPT !.missing = @ \cup {d.name}]
    ELSE Visit(w, [st EXCEPT !.chosen = @ \cup {new.name}], new, "explicit")

\* A target the image stands in for is refused; one installed and current is
\* only repaired; anything else is looked for.
TargetWith(w, st, d, old) ==
    IF \E p \in w.system : p[1] = d.name THEN [st EXCEPT !.refused = @ \cup {d.name}]
    ELSE IF /\ old # None /\ old.ver \in d.ok
            /\ UpgradeCandidate(w, d.name) = None
            /\ d.name \notin w.force
         THEN [Repair(w, st, old) EXCEPT !.satisfied = @ \cup {d.name}]
    ELSE Chosen(w, st, d, Find(w, d, st.seen))

Target(w, st, d) == TargetWith(w, st, d, Installed(w, d.name))

\* Named on the command line means explicit, however it was reached.
MarkChosen(st) ==
    [st EXCEPT !.install = [i \in DOMAIN @ |->
        IF @[i].pkg.name \in st.chosen THEN [@[i] EXCEPT !.why = "explicit"] ELSE @[i]]]

\* Installed packages an incoming one retires, and conflicts with what comes
\* and with what is there.
DetectConflicts(w, st) ==
    LET incoming == {p.pkg : p \in ToSet(st.install)}
        comes(n) == \E p \in incoming : p.name = n
        old(d)   == Satisfier(w, d)
        renames(r, c) == old(c) # None /\ ReplacedBy(r, old(c)) /\ ~comes(old(c).name)
        pairs(r) == {<<r, d>> : d \in r.replaces}
                    \cup {<<r, c>> : c \in {c \in r.conflicts : c.name # r.name /\ renames(r, c)}}
        rival(c) == First(st.install, LAMBDA p : Satisfies(p.pkg, c))
        clash(r, c) == /\ c.name # r.name /\ ~renames(r, c)
                       /\ IF rival(c) # None
                          THEN rival(c).pkg.name # r.name
                          ELSE old(c) # None /\ old(c).name # r.name
    IN  [st EXCEPT
          !.replacing = {<<x[1].name, old(x[2]).name>> : x \in
                           {x \in UNION {pairs(r) : r \in incoming} :
                               /\ old(x[2]) # None
                               /\ old(x[2]).name # x[1].name
                               /\ ~comes(old(x[2]).name)}},
          !.conflicts = {r.name : r \in {r \in incoming : \E c \in r.conflicts : clash(r, c)}}]

Resolve(w, targets) ==
    DetectConflicts(w, MarkChosen(FoldLeft(LAMBDA s, d : Target(w, s, d), NoPlan, targets)))

-----------------------------------------------------------------------------
(* upgrade.rs: what is out of date.  A candidate is <<name, kind>>. *)

Ahead(w, r) ==
    LET repo == SyncGet(w, r.name)
        aur  == AurGet(w, r.name)
    IN  IF repo # None
        THEN IF repo.ver > r.ver THEN {<<r.name, "upgrade">>}
             ELSE IF repo.ver < r.ver THEN {<<r.name, "downgrade">>} ELSE {}
        ELSE IF aur # None /\ SameAurPackage(r, aur) /\ aur.ver > r.ver
        THEN {<<r.name, "upgrade">>} ELSE {}

\* Mutant: a successor that is already installed is proposed again.
SuccessorsAgain(w) ==
    {<<r.name, "replacement">> : r \in
        {r \in ToSet(w.sync) : \E d \in r.replaces : Satisfier(w, d) # None}}

\* A repository's package that replaces an installed one, in a full check only.
Successors(w) ==
    {<<r.name, "replacement">> : r \in
        {r \in ToSet(w.sync) : /\ Installed(w, r.name) = None
                               /\ \E d \in r.replaces : Satisfier(w, d) # None}}

\* A VCS package no repository carries, whose upstream moved since it was built.
Rebuilds(w, moved) ==
    {<<n, "devel">> : n \in {n \in moved : /\ Installed(w, n) # None
                                           /\ SyncGet(w, n) = None
                                           /\ Installed(w, n).from \in {"aur", "unknown"}}}

\* only = {} is a full check.
OutOfDate(w, only, moved) ==
    LET mine  == {r \in ToSet(w.local) : only = {} \/ r.name \in only}
        newer == UNION {Ahead(w, r) : r \in mine}
                 \cup (IF only = {} THEN Successors(w) ELSE {})
    IN  newer \cup {c \in Rebuilds(w, moved) : /\ only = {} \/ c[1] \in only
                                               /\ \A o \in newer : o[1] # c[1]}

-----------------------------------------------------------------------------
(* remove.rs: what an uninstall takes *)

\* Mutant: what is going counts as a survivor.
LosesNothing(w, r, going) ==
    \E d \in ToSet(r.depends) :
        /\ Satisfier(w, d) # None
        /\ \A o \in ToSet(w.local) : ~Satisfies(o, d)


Loses(w, r, going) ==
    \E d \in ToSet(r.depends) :
        /\ Satisfier(w, d) # None
        /\ ~SystemSatisfies(w, d)
        /\ \A o \in ToSet(w.local) : o.name \notin going => ~Satisfies(o, d)

BrokenBy(w, going) ==
    {r.name : r \in {r \in ToSet(w.local) : r.name \notin going /\ Loses(w, r, going)}}

\* Mutant: whatever nothing needs is an orphan.
IsUnneeded(w, why, r, going) ==
    \A o \in ToSet(w.local) :
        o.name \notin going /\ o.name # r.name
            => \A d \in ToSet(o.depends) : ~Satisfies(r, d)

\* why is the recorded reason of each installed package.
IsOrphan(w, why, r, going) ==
    /\ why[r.name] = "dependency"
    /\ \A o \in ToSet(w.local) :
           o.name \notin going /\ o.name # r.name
               => \A d \in ToSet(o.depends) : ~Satisfies(r, d)

\* Only what the removal set itself depends on can be orphaned by it.
Orphans(w, why, going) ==
    LET wanted == UNION {ToSet(r.depends) : r \in {r \in ToSet(w.local) : r.name \in going}}
    IN  {r.name : r \in {r \in ToSet(w.local) : /\ r.name \notin going
                                                /\ \E d \in wanted : Satisfies(r, d)
                                                /\ IsOrphan(w, why, r, going)}}

RECURSIVE Cascade(_, _), Sweep(_, _, _)
Cascade(w, going) ==
    IF BrokenBy(w, going) = {} THEN going ELSE Cascade(w, going \cup BrokenBy(w, going))

Sweep(w, why, going) ==
    IF Orphans(w, why, going) = {} THEN going
    ELSE Sweep(w, why, going \cup Orphans(w, why, going))

\* Dependents before what they depend on; what is left of a cycle goes last.
RECURSIVE RemovalOrder(_, _)
RemovalOrder(w, names) ==
    LET left  == {r \in ToSet(w.local) : r.name \in names}
        free  == {r.name : r \in {r \in left : \A o \in left \ {r} :
                                    \A d \in ToSet(o.depends) : ~Satisfies(r, d)}}
        next  == First(w.order, LAMBDA n : n \in free)
    IN  IF names = {} THEN <<>>
        ELSE IF free = {} THEN SelectSeq(w.order, LAMBDA n : n \in names)
        ELSE <<next>> \o RemovalOrder(w, names \ {next})

\* options: a subset of {"cascade", "recursive", "nodeps"}.
PlanRemoval(w, why, targets, options) ==
    LET named  == {n \in targets : Installed(w, n) # None}
        wide   == IF "cascade" \in options THEN Cascade(w, named) ELSE named
        going  == IF "recursive" \in options THEN Sweep(w, why, wide) ELSE wide
        stops  == "nodeps" \notin options /\ BrokenBy(w, going) # {}
        gone   == IF named = {} \/ stops THEN {} ELSE going
    IN  [absent |-> targets \ named, blocked |-> named # {} /\ stops,
         orphans |-> IF stops THEN {} ELSE going \ wide, remove |-> RemovalOrder(w, gone)]

Held(w, plan) == ToSet(plan.remove) \cap w.held
=============================================================================
