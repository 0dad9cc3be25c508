------------------------------- MODULE Planner -------------------------------
(***************************************************************************)
(* The machine as rvn's planning sees it: what is installed and why, what  *)
(* the repositories publish and what of it has been synced; and the        *)
(* commands of a person over it: install, update and uninstall.  A command *)
(* is one step here; InstallTx takes an install and an uninstall apart.    *)
(***************************************************************************)
EXTENDS Resolver, FiniteSets

CONSTANTS Names,        \* package names
          Releases,     \* every release of this world
          Published,    \* sequence of [sync, aur]: what the mirrors carry, in time
          Machines,     \* [inst, why] a behaviour may start from
          Orders,       \* orders a HashMap of packages may be read in
          System,       \* what the image provides: a set of <<name, version>>
          Ignore, Holds,   \* IgnorePkg; what HoldPkg and rvn itself hold
          Requests,     \* what may be asked of install: sequences of dependencies
          Removals,     \* what may be asked of uninstall: [names, options]
          Devel,        \* VCS packages whose upstream may move
          MaxCommands   \* bound on the commands of a behaviour

ASSUME PlannerAssumption ==
    /\ \A r \in Releases : r.name \in Names /\ r.ver \in Nat \ {0}
    /\ \A m \in Machines : \A n \in Names :
           m.inst[n] # None => m.inst[n] \in Releases /\ m.inst[n].name = n
    /\ \A o \in Orders : ToSet(o) = Names /\ Len(o) = Cardinality(Names)
    /\ MaxCommands \in Nat

VARIABLES inst,      \* [Names -> release or None]: the local database
          why,       \* [Names -> reason]: %REASON% of each record
          edition,   \* what the mirrors carry now: an index into Published
          synced,    \* what the databases under sync/ hold
          moved,     \* VCS packages whose upstream is ahead of what was built
          shown,     \* the dry run a person is looking at: [targets, plan, over], or None
          last,      \* what the last command did: [op, targets, names, plan]
          commands   \* how many commands were given

vars == <<inst, why, edition, synced, moved, shown, last, commands>>

Reasons == {"explicit", "dependency"}
Nothing == [op |-> "none", targets |-> {}, plan |-> <<>>, cycles |-> {}]
Target1(n) == [name |-> n, ok |-> AnyVersion]
TargetNames(ts) == {d.name : d \in ToSet(ts)}

World(i, s, o, force) ==
    LET here == SelectSeq(o, LAMBDA n : i[n] # None)
    IN  [sync |-> FlattenSeq(Published[s].sync), aur |-> Published[s].aur,
         local |-> [k \in DOMAIN here |-> i[here[k]]], order |-> o,
         system |-> System, ignore |-> Ignore, force |-> force, held |-> Holds]

Init == /\ \E m \in Machines :
              /\ inst = m.inst /\ why = m.why
        /\ edition = 1 /\ synced = 1
        /\ moved = {} /\ shown = None /\ last = Nothing /\ commands = 0

-----------------------------------------------------------------------------
(* install *)

Refused(st) == st.conflicts # {} \/ st.missing # {}

Coming(st) == {p.pkg.name : p \in ToSet(st.install)}

\* The record keeps an explicit reason, and takes one from the plan.
Reason(n, p) ==
    IF inst[n] # None /\ why[n] = "explicit" THEN "explicit"
    ELSE IF p.why \in {"explicit", "toolchain"} THEN "explicit" ELSE "dependency"

\* The plan goes through: its packages are recorded, what they replace retired.
Apply(st) ==
    LET retired == {x[2] : x \in st.replacing}
        entry(n) == CHOOSE p \in ToSet(st.install) : p.pkg.name = n
    IN  /\ inst' = [n \in Names |-> IF n \in retired THEN None
                                    ELSE IF n \in Coming(st) THEN entry(n).pkg ELSE inst[n]]
        /\ why' = [n \in Names |-> IF n \in retired THEN "dependency"
                                   ELSE IF n \in Coming(st) THEN Reason(n, entry(n)) ELSE why[n]]
        /\ moved' = moved \ Coming(st)

\* install::execute once the databases are what it resolves over.
Settle(op, ts, st) ==
    /\ last' = [op |-> IF Refused(st) THEN "refused" ELSE op,
                targets |-> TargetNames(ts) \ st.refused,
                plan |-> st.install, cycles |-> st.cycles]
    /\ IF Refused(st) THEN UNCHANGED <<inst, why, moved>> ELSE Apply(st)

Execute(w, op, ts) == Settle(op, ts, Resolve(w, ts))

\* Stale databases are refreshed first; staleness is a matter of the clock.
Refreshed(s) == {s, edition}

Count == /\ commands < MaxCommands
         /\ commands' = commands + 1

Install(ts) ==
    /\ Count
    /\ \E s \in Refreshed(synced), o \in Orders :
          /\ synced' = s
          /\ Execute(World(inst, s, o, {}), "installed", ts)
    /\ UNCHANGED <<edition, shown>>

\* Mutant: what a target draws in is left out of what is shown.
ShowAskedFor(ts, st) ==
    /\ ~Refused(st) /\ st.install # <<>>
    /\ shown' = [targets |-> ts, over |-> <<inst, synced>>,
                 plan |-> {p.pkg.name : p \in {p \in ToSet(st.install) : p.why = "explicit"}}]

\* A dry run reads the databases as they are and changes nothing.
Show(ts, st) ==
    /\ ~Refused(st) /\ st.install # <<>>
    /\ shown' = [targets |-> ts, plan |-> Coming(st), over |-> <<inst, synced>>]

Preview(ts) ==
    /\ Count /\ shown = None
    /\ \E o \in Orders : Show(ts, Resolve(World(inst, synced, o, {}), ts))
    /\ UNCHANGED <<inst, why, edition, synced, moved, last>>

\* The person says yes, and the client asks for the real run.
Approve ==
    /\ shown # None
    /\ \E s \in Refreshed(synced), o \in Orders :
          /\ synced' = s
          /\ Execute(World(inst, s, o, {}), "installed", shown.targets)
    /\ shown' = None
    /\ UNCHANGED <<edition, commands>>

-----------------------------------------------------------------------------
(* update *)

\* A downgrade is never applied.
Applicable(w, only) == {c \in OutOfDate(w, only, moved) : c[2] # "downgrade"}

\* The names that are out of date, sorted, are the targets of an install.
UpdateTargets(cs) ==
    LET ns == SelectSeq(CHOOSE o \in Orders : TRUE, LAMBDA n : \E c \in cs : c[1] = n)
    IN  [i \in DOMAIN ns |-> Target1(ns[i])]

\* A full update, or one of the named packages; fresh without --no-refresh.
Update(only, fresh) ==
    /\ Count
    /\ \E o \in Orders :
          LET s  == IF fresh THEN edition ELSE synced
              w  == World(inst, s, o, {})
              cs == Applicable(w, only)
              force == {c[1] : c \in {c \in cs : c[2] = "devel"}}
          IN  IF only # {} /\ \A n \in only : inst[n] = None
              THEN /\ last' = [Nothing EXCEPT !.op = "refused"]
                   /\ synced' = s
                   /\ UNCHANGED <<inst, why, moved>>
              ELSE IF cs = {}
              THEN /\ last' = [Nothing EXCEPT !.op = "current", !.targets = only]
                   /\ synced' = s
                   /\ UNCHANGED <<inst, why, moved>>
              ELSE \E again \in Refreshed(s) :
                     /\ synced' = again
                     /\ Execute(World(inst, again, o, force),
                                IF only = {} /\ again = s THEN "updated" ELSE "partial",
                                UpdateTargets(cs))
    /\ UNCHANGED <<edition, shown>>

-----------------------------------------------------------------------------
(* uninstall *)

\* Held packages are never a side effect, and under --yes never taken at all;
\* an orphan sweep under --yes has to have been asked for.
Stopped(w, plan, names, options) ==
    LET yes == "yes" \in options
    IN  \/ plan.absent # {} \/ plan.blocked
        \/ Held(w, plan) \ names # {}
        \/ Held(w, plan) # {} /\ yes
        \/ yes /\ plan.orphans # {} /\ "removeOrphans" \notin options

Uninstall(names, options) ==
    /\ Count
    /\ \E o \in Orders :
          LET w    == World(inst, synced, o, {})
              plan == PlanRemoval(w, why, names, options)
              gone == ToSet(plan.remove)
              stop == Stopped(w, plan, names, options)
          IN  /\ last' = [op |-> IF stop THEN "refused" ELSE "removed", targets |-> names,
                          plan |-> plan.remove, cycles |-> options]
              /\ inst' = IF stop THEN inst
                         ELSE [n \in Names |-> IF n \in gone THEN None ELSE inst[n]]
              /\ why' = IF stop THEN why
                        ELSE [n \in Names |-> IF n \in gone THEN "dependency" ELSE why[n]]
    /\ UNCHANGED <<edition, synced, moved, shown>>

-----------------------------------------------------------------------------
(* the world outside *)

Publish == /\ edition < Len(Published)
           /\ edition' = edition + 1
           /\ UNCHANGED <<inst, why, synced, moved, shown, last, commands>>

UpstreamMoves(n) ==
    /\ n \in Devel /\ inst[n] # None /\ n \notin moved
    /\ moved' = moved \cup {n}
    /\ UNCHANGED <<inst, why, edition, synced, shown, last, commands>>

Next == \/ \E ts \in Requests : Install(ts) \/ Preview(ts)
        \/ Approve
        \/ \E only \in {{}} \cup {{n} : n \in Names}, fresh \in BOOLEAN : Update(only, fresh)
        \/ \E r \in Removals : Uninstall(r.names, r.options)
        \/ Publish
        \/ \E n \in Names : UpstreamMoves(n)

Spec == Init /\ [][Next]_vars

-----------------------------------------------------------------------------
(* properties *)

Have(i) == {i[n] : n \in {n \in Names : i[n] # None}}

Met(i, d) == \/ \E r \in Have(i) : Satisfies(r, d)
             \/ \E p \in System : ProvideSatisfies(p, d)

\* What the repositories cannot give is nobody's fault.
Obtainable(s, d) ==
    LET w == World(inst, s, CHOOSE o \in Orders : TRUE, {})
    IN  \E r \in ToSet(w.sync) \cup w.aur : Satisfies(r, d) /\ r.name \notin Ignore

\* The packages that are whole: each dependency met by one that is whole too.
RECURSIVE Whole(_, _, _)
Whole(i, s, R) ==
    LET ok == {r \in R : \A d \in ToSet(r.depends) :
                   \/ \E o \in R : Satisfies(o, d)
                   \/ \E p \in System : ProvideSatisfies(p, d)
                   \/ ~Met(i, d) /\ ~Obtainable(s, d)}
    IN  IF ok = R THEN R ELSE Whole(i, s, ok)

\* An install that goes through leaves what it installed, and what was asked
\* for and already there, whole all the way down.
InstallsWhole ==
    [][last' # last /\ last'.op \in {"installed", "updated", "partial"}
        => \A n \in {p.pkg.name : p \in ToSet(last'.plan)} \cup (last'.targets \ Ignore) :
               inst'[n] # None => inst'[n] \in Whole(inst', synced', Have(inst'))]_vars

\* A package is installed after what it needs, except around a noted cycle.
DependenciesFirst ==
    [][last' # last /\ last'.op \in {"installed", "updated", "partial"}
        => LET plan == last'.plan
           IN  \A k \in DOMAIN plan : \A d \in ToSet(plan[k].pkg.depends) :
                  \/ Met(inst, d)
                  \/ ~Obtainable(synced', d)
                  \/ \E j \in 1..k : Satisfies(plan[j].pkg, d)
                  \/ \E j \in DOMAIN plan, c \in last'.cycles :
                        Satisfies(plan[j].pkg, d) /\ {plan[j].pkg.name, plan[k].pkg.name} \subseteq c]_vars

Removed == last' # last /\ last'.op = "removed"
Gone == {n \in Names : inst[n] # None /\ inst'[n] = None}

\* A removal without --nodeps breaks nothing that stays: what was met is met.
RemovalBreaksNothing ==
    [][Removed /\ "nodeps" \notin last'.cycles
        => \A r \in Have(inst') : \A d \in ToSet(r.depends) : Met(inst, d) => Met(inst', d)]_vars

\* Nobody loses a package as a side effect that was asked for (but for a
\* cascade), that is held, or that nothing removed had any need of.
SweepSpares ==
    [][Removed => \A n \in Gone \ last'.targets :
          /\ n \notin Holds
          /\ \/ "cascade" \in last'.cycles
             \/ /\ why[n] # "explicit"
                /\ \E m \in Gone \ {n} : \E d \in ToSet(inst[m].depends) : Satisfies(inst[n], d)
                /\ \A m \in Names \ Gone : inst[m] # None =>
                      \A d \in ToSet(inst[m].depends) : ~Satisfies(inst[n], d)]_vars

\* An update of everything leaves nothing for the next one to do, and no update
\* builds the AUR's package over one that only shares its name.
UpdateSettles ==
    [][last' # last
        => /\ last'.op = "updated" =>
                \A o \in Orders : \A c \in OutOfDate(World(inst', synced', o, {}), {}, moved') :
                    c[2] = "downgrade" \/ c[1] \in Ignore
           /\ last'.op \in {"updated", "partial"} =>
                \A n \in Names : inst[n] # None /\ inst[n].from = "local" => inst'[n] = inst[n]]_vars

\* The real run resolves again. It installs what the dry run showed, unless
\* another command came between or the databases have been synced since.
InstallsTheShown ==
    [][shown # None /\ shown' = None /\ last'.op = "installed" /\ shown.over = <<inst, synced'>>
        => {p.pkg.name : p \in ToSet(last'.plan)} = shown.plan]_vars
=============================================================================
