---- MODULE Aftermath ----
(***************************************************************************)
(* Aftermath: what a transaction does around and after its files - the     *)
(* hooks of the administrator before and after it (txhooks.rs), and per    *)
(* package its scriptlet, the accounts and defaults it declares            *)
(* (hooks.rs), and once at the end the desktop's caches (caches.rs). The   *)
(* files themselves, the records and the retiring of replaced packages are *)
(* InstallTx's; here a package is on disk and recorded, or not.            *)
(***************************************************************************)
EXTENDS Integers, Sequences, FiniteSetsExt, SequencesExt

CONSTANTS
  Order,         \* the packages, in the order a plan lists them
  Paths,         \* Paths[p]: the kinds of path p's files lie under
  Scripted,      \* packages with a scriptlet for every moment
  Decls,         \* Decls[p]: p's sysusers.d lines
  Defaults,      \* Defaults[p]: the /etc files p's tmpfiles.d copies into place
  HookNames,     \* numbers standing for the hook files' names, in their order
  HookSets,      \* the hook directories to start from
  MaxId,         \* system ids are 1 .. MaxId (100 .. 999 in the code)
  MaxCommands, MaxFaults   \* bounds

Packages == ToSet(Order)
Targets == UNION {Defaults[p] : p \in Packages}
Ops == {"install", "remove", "update"}

(* A hook file: absent, a link to /dev/null, empty, one that does not      *)
(* parse, or a hook.                                                       *)
Hook == [file : {"hook", "absent", "null", "empty", "broken"}, when : {"pre", "post"},
         ops : SUBSET Ops, packages : SUBSET Packages,
         paths : SUBSET UNION {Paths[p] : p \in Packages}, abort : BOOLEAN]

(* What parse_hook refuses: no operation, or something to stop when it is  *)
(* too late to stop.                                                       *)
Parses(h) == h.ops # {} /\ ~(h.abort /\ h.when = "post")

ASSUME AftermathAssumption ==
  /\ Order \in Seq(Packages) /\ HookNames \subseteq Nat
  /\ \A p \in Packages : /\ Decls[p] \in Seq(ToSet(Decls[p]))
                         /\ \A l \in ToSet(Decls[p]) : l.kind \in {"u", "g", "m"}
  /\ \A d \in HookSets : \A n \in HookNames, k \in 1 .. 2 : d[n][k] \in Hook
  /\ {MaxId, MaxCommands, MaxFaults} \subseteq Nat

VARIABLES
  hookdirs,   \* the hook files: by name, shipped and the administrator's
  installed,  \* packages on disk and recorded
  outdated,   \* the desktop's caches do not index what is on disk
  group,      \* /etc/group: [name, id, members]
  passwd,     \* /etc/passwd: [name, uid, gid]
  shadow,     \* names in /etc/shadow
  default,    \* the /etc files of tmpfiles.d: "none", "part", "whole" or "admin"
  called,     \* the log: scriptlets this transaction ran, [package, moment]
  was,        \* history: what was installed when it began
  tx,         \* the transaction under way
  vetoed,     \* history: a hook that may stop this transaction has failed
  ran,        \* history: the hooks this transaction has run, by name
  cut,        \* history: a step failed or was killed
  lost,       \* history: a rewrite of /etc/group was cut short
  commands, faults

accounts == <<group, passwd, shadow>>
machine == <<installed, outdated, accounts, default>>
history == <<was, vetoed, ran, cut, lost>>
vars == <<hookdirs, machine, called, tx, history, commands, faults>>

NoTx == [pc |-> "idle", kind |-> "none", ops |-> {}, plan |-> {}, hooks |-> {}, todo |-> {},
         lines |-> <<>>, copies |-> {}, target |-> "none", done |-> {}, files |-> {}, stale |-> FALSE,
         gid |-> 0]

Moments == {"pre_install", "post_install", "pre_upgrade", "post_upgrade", "pre_remove", "post_remove"}

(* A step that fails, within the bound; a mishap leaves nothing half done. *)
Mishap == faults < MaxFaults /\ faults' = faults + 1 /\ UNCHANGED cut
Fault == faults < MaxFaults /\ faults' = faults + 1 /\ cut' = TRUE
Fine == UNCHANGED <<faults, cut>>
Goes(pc) == tx' = [tx EXCEPT !.pc = pc]
(* The next package: what a plan lists first.                              *)
First(S) == Order[Min({i \in DOMAIN Order : Order[i] \in S})]
Package == First(tx.todo)
Gives(name, id, members) == [name |-> name, id |-> id, members |-> members]

(***************************************************************************)
(* txhooks.rs: the hooks of a moment, in file-name order.                  *)
(***************************************************************************)
(* Only a regular file is read, and the last directory's wins.             *)
Regular(c) == c.file \notin {"absent", "null"}
Loaded(n) == IF Regular(hookdirs[n][2]) THEN hookdirs[n][2] ELSE hookdirs[n][1]

IsHook(c) == c.file = "hook"
Unreadable == \E n \in HookNames :
                Loaded(n).file = "broken" \/ (IsHook(Loaded(n)) /\ ~Parses(Loaded(n)))

Matches(h, ops, packages, files) ==
  /\ h.ops \cap ops # {}
  /\ \/ h.packages = {} /\ h.paths = {}
     \/ h.packages \cap packages # {}
     \/ h.paths \cap files # {}

Matching(when, ops, packages, files) ==
  {n \in HookNames : /\ IsHook(Loaded(n)) /\ Loaded(n).when = when
                     /\ Matches(Loaded(n), ops, packages, files)}
NextHook == Min(tx.hooks)

(* What the transaction is, decided once, before anything is written.      *)
Operations(S) ==
  {"install" : p \in S \ installed} \cup {"update" : p \in S \cap installed}

(* The files its packages own: of one never installed, none are known.     *)
FilesOf(S) == UNION {Paths[p] : p \in S \cap installed}

Begin(kind, S) ==
  /\ tx.pc = "idle" /\ commands < MaxCommands /\ commands' = commands + 1
  /\ S # {} /\ (kind = "remove" => S \subseteq installed)
  /\ LET ops == IF kind = "remove" THEN {"remove"} ELSE Operations(S)
         files == FilesOf(S) IN
     tx' = IF Unreadable THEN NoTx
           ELSE [NoTx EXCEPT !.pc = "pre", !.kind = kind, !.ops = ops, !.plan = S,
                   !.files = files, !.hooks = Matching("pre", ops, S, files)]
  /\ was' = installed /\ called' = {} /\ vetoed' = FALSE /\ ran' = {}
  /\ UNCHANGED <<hookdirs, machine, cut, lost, faults>>

(* run_transaction_hooks: a failure stops a transaction only before it     *)
(* has begun, and only if the hook says so.                                *)
Stops(h) == h.abort

RunPre ==
  /\ tx.pc = "pre" /\ tx.hooks # {}
  /\ LET n == NextHook h == Loaded(n) IN
     /\ ran' = ran \cup {n}
     /\ \/ Fine /\ tx' = [tx EXCEPT !.hooks = @ \ {n}] /\ UNCHANGED vetoed
        \/ /\ Mishap
           /\ vetoed' = (vetoed \/ h.abort)
           /\ tx' = IF Stops(h) THEN NoTx ELSE [tx EXCEPT !.hooks = @ \ {n}]
  /\ UNCHANGED <<hookdirs, machine, called, was, lost, commands>>

RunPost ==
  /\ tx.pc = "post" /\ tx.hooks # {}
  /\ ran' = ran \cup {NextHook} /\ tx' = [tx EXCEPT !.hooks = @ \ {NextHook}]
  /\ \/ Fine
     \/ Mishap
  /\ UNCHANGED <<hookdirs, machine, called, was, vetoed, lost, commands>>

(* execute: what could not be fetched or verified is left out; if that is  *)
(* everything, the transaction ends here, and its post hooks never run.    *)
Fetch ==
  /\ tx.pc = "pre" /\ tx.hooks = {}
  /\ \/ /\ Fine
        /\ tx' = [tx EXCEPT !.pc = IF tx.kind = "remove" THEN "remove" ELSE "unpack", !.todo = tx.plan]
     \/ /\ tx.kind = "install" /\ Mishap
        /\ \E S \in SUBSET tx.plan \ {tx.plan} :
             tx' = IF S = {} THEN NoTx ELSE [tx EXCEPT !.pc = "unpack", !.todo = S]
  /\ UNCHANGED <<hookdirs, machine, called, was, vetoed, ran, lost, commands>>

(***************************************************************************)
(* install_archives, after the checks: one package at a time.              *)
(***************************************************************************)
Stale(p) == "app" \in Paths[p]

ForInstall(p, pre) ==
  IF p \in was THEN IF pre THEN "pre_upgrade" ELSE "post_upgrade"
  ELSE IF pre THEN "pre_install" ELSE "post_install"
RunScriptlet(p, moments) ==
  called' = called \cup ({p} \cap Scripted) \X moments

Unpack ==
  /\ tx.pc = "unpack" /\ tx.todo # {}
  /\ RunScriptlet(Package, {ForInstall(Package, TRUE)})
  /\ \/ /\ Fine
        /\ installed' = installed \cup {Package}
        /\ outdated' = (outdated \/ Stale(Package))
        /\ Goes("script")
     \/ Fault /\ tx' = NoTx /\ UNCHANGED <<installed, outdated>>
  /\ UNCHANGED <<hookdirs, accounts, default, was, vetoed, ran, lost, commands>>

Notes(p) == tx.stale \/ Stale(p)

AfterRecord ==
  /\ tx.pc = "script"
  /\ RunScriptlet(Package, {ForInstall(Package, FALSE)})
  /\ tx' = [tx EXCEPT !.pc = "lines", !.lines = Decls[Package], !.copies = Defaults[Package],
                      !.stale = Notes(Package)]
  /\ UNCHANGED <<hookdirs, machine, history, commands, faults>>

(***************************************************************************)
(* hooks.rs: accounts. An id is asked for as any free one, as a number, or *)
(* as the owner of a path.                                                 *)
(***************************************************************************)
Line == Head(tx.lines)
NextLine == tx' = [tx EXCEPT !.pc = "lines", !.lines = Tail(@)]
Named(db, name) == {e \in db : e.name = name}
Gids == {g.id : g \in group}
Uids == {u.uid : u \in passwd}
FreeIds(used) == (1 .. MaxId) \ used

(* A number is taken as it stands, in use or not. 0 stands for no id left. *)
FreeId(used) == IF FreeIds(used) = {} THEN 0 ELSE Max(FreeIds(used))
Exhausted == cut' = TRUE /\ UNCHANGED faults
ResolveIdOwner(spec, used) == IF spec.by = "free" THEN FreeId(used) ELSE spec.id
ResolveId(spec, used) ==
  CASE spec.by = "number" -> spec.id
    [] spec.by = "path" /\ spec.id \notin used -> spec.id
    [] OTHER -> FreeId(used)

GroupName(l) == IF l.kind = "u" /\ l.group # "-" THEN l.group ELSE l.name
GroupSpec(l) == IF l.kind = "u" /\ l.group # "-" THEN [by |-> "free", id |-> 0] ELSE l.spec

(* ensure_user returns at once when the name is there, whatever else is.   *)
PresentGroup(l) == Named(group, l.name) # {}
Present(l) == IF l.kind = "u" THEN Named(passwd, l.name) # {} ELSE Named(group, l.name) # {}

Members(g) == {h.members : h \in Named(group, g)}
Adds(l) == \E m \in Members(l.group) : l.name \notin m

Declares ==
  /\ tx.pc = "lines" /\ tx.lines # <<>>
  /\ IF Line.kind = "m" THEN IF Adds(Line) THEN Goes("rewrite") ELSE NextLine
     ELSE IF Present(Line) THEN NextLine ELSE Goes("group")
  /\ UNCHANGED <<hookdirs, machine, called, history, commands, faults>>

AddGroup(name, id) == IF Named(group, name) = {} THEN group \cup {Gives(name, id, {})} ELSE group

(* ensure_group, and a user's primary group before the user.               *)
EnsureGroup ==
  /\ tx.pc = "group"
  /\ LET name == GroupName(Line)
         id == ResolveId(GroupSpec(Line), Gids)
         there == Named(group, name)
         gid == IF there # {} THEN (CHOOSE g \in there : TRUE).id ELSE id IN
     IF there = {} /\ id = 0 THEN Exhausted /\ NextLine /\ UNCHANGED group
     ELSE \/ /\ Fine
             /\ group' = AddGroup(name, id)
             /\ IF Line.kind = "u" THEN tx' = [tx EXCEPT !.pc = "passwd", !.gid = gid] ELSE NextLine
          \/ Fault /\ NextLine /\ UNCHANGED group
  /\ UNCHANGED <<hookdirs, installed, outdated, passwd, shadow, default, called, was, vetoed, ran, lost, commands>>

AppendPasswd ==
  /\ tx.pc = "passwd"
  /\ LET uid == ResolveId(Line.spec, Uids) IN
     \/ /\ uid # 0 /\ Fine /\ Goes("shadow")
        /\ passwd' = passwd \cup {[name |-> Line.name, uid |-> uid, gid |-> tx.gid]}
     \/ (IF uid = 0 THEN Exhausted ELSE Fault) /\ NextLine /\ UNCHANGED passwd
  /\ UNCHANGED <<hookdirs, installed, outdated, group, shadow, default, called, was, vetoed, ran, lost, commands>>

AppendShadow ==
  /\ tx.pc = "shadow" /\ NextLine
  /\ \/ Fine /\ shadow' = shadow \cup {Line.name}
     \/ Fault /\ UNCHANGED shadow
  /\ UNCHANGED <<hookdirs, installed, outdated, group, passwd, default, called, was, vetoed, ran, lost, commands>>

(* add_membership rewrites the whole of /etc/group: it is truncated before *)
(* it is written, so a rewrite that fails has taken every group with it.   *)
AddMembership ==
  /\ tx.pc = "rewrite" /\ NextLine
  /\ \/ /\ Fine /\ UNCHANGED lost
        /\ group' = {IF g.name = Line.group THEN [g EXCEPT !.members = @ \cup {Line.name}] ELSE g : g \in group}
     \/ Fault /\ lost' = TRUE /\ group' = {}
  /\ UNCHANGED <<hookdirs, installed, outdated, passwd, shadow, default, called, was, vetoed, ran, commands>>

(* tmpfiles.d, after all the accounts: a default is copied where nothing   *)
(* is; a copy cut short stays.                                             *)
Copies ==
  /\ tx.pc = "lines" /\ tx.lines = <<>>
  /\ \/ /\ tx.copies = {}
        /\ tx' = [tx EXCEPT !.pc = "unpack", !.todo = @ \ {Package}, !.done = @ \cup {Package}]
        /\ UNCHANGED default
     \/ \E t \in tx.copies :
          IF default[t] = "none"
          THEN tx' = [tx EXCEPT !.pc = "copy", !.target = t] /\ default' = [default EXCEPT ![t] = "part"]
          ELSE tx' = [tx EXCEPT !.copies = @ \ {t}] /\ UNCHANGED default
  /\ UNCHANGED <<hookdirs, installed, outdated, accounts, called, history, commands, faults>>

CopyDefault ==
  /\ tx.pc = "copy" /\ tx' = [tx EXCEPT !.pc = "lines", !.copies = @ \ {tx.target}, !.target = "none"]
  /\ \/ Fine /\ default' = [default EXCEPT ![tx.target] = "whole"]
     \/ Fault /\ UNCHANGED default
  /\ UNCHANGED <<hookdirs, installed, outdated, accounts, called, was, vetoed, ran, lost, commands>>

(***************************************************************************)
(* ops/remove.rs: apply. The accounts and the defaults stay behind.        *)
(***************************************************************************)
Uninstall ==
  /\ tx.pc = "remove" /\ tx.todo # {}
  /\ \/ /\ Fine
        /\ RunScriptlet(Package, {"pre_remove", "post_remove"})
        /\ installed' = installed \ {Package}
        /\ outdated' = (outdated \/ Stale(Package))
        /\ tx' = [tx EXCEPT !.todo = @ \ {Package}, !.stale = Notes(Package), !.done = @ \cup {Package}]
     \/ Fault /\ tx' = NoTx /\ RunScriptlet(Package, {"pre_remove"}) /\ UNCHANGED <<installed, outdated>>
  /\ UNCHANGED <<hookdirs, accounts, default, was, vetoed, ran, lost, commands>>

(* One rebuild for the whole transaction; a tool that is missing or fails  *)
(* is a warning. Then the post hooks: after an install they are matched    *)
(* against what was installed and what it owns now, after a removal        *)
(* against what the records said before it.                                *)
After(ops) ==
  IF tx.kind = "remove" THEN Matching("post", ops, tx.plan, tx.files)
  ELSE Matching("post", ops, tx.done, FilesOf(tx.done))
PostHooksAsked == After(IF tx.kind = "remove" THEN tx.ops ELSE Operations(tx.done))
PostHooks == After(tx.ops)

RefreshCaches ==
  /\ tx.pc \in {"unpack", "remove"} /\ tx.todo = {}
  /\ tx' = [tx EXCEPT !.pc = "post", !.hooks = PostHooks]
  /\ IF ~tx.stale THEN Fine /\ UNCHANGED outdated
     ELSE \/ Fine /\ outdated' = FALSE
          \/ Fault /\ UNCHANGED outdated
  /\ UNCHANGED <<hookdirs, installed, accounts, default, called, was, vetoed, ran, lost, commands>>

Finish ==
  /\ tx.pc = "post" /\ tx.hooks = {} /\ tx' = NoTx
  /\ UNCHANGED <<hookdirs, machine, called, history, commands, faults>>

(* rvn is killed: what it had written stays.                               *)
Kill ==
  /\ tx.pc # "idle" /\ Fault /\ tx' = NoTx
  /\ IF tx.pc = "rewrite" THEN lost' = TRUE /\ group' = {} ELSE UNCHANGED <<lost, group>>
  /\ UNCHANGED <<hookdirs, installed, outdated, passwd, shadow, default, called, was, vetoed, ran, commands>>

(* A machine with an account its administrator made, and packages that     *)
(* declare nothing.                                                        *)
Init ==
  /\ hookdirs \in HookSets
  /\ installed \in SUBSET {p \in Packages : Decls[p] = <<>> /\ Defaults[p] = {}}
  /\ \E admins \in SUBSET {l.name : l \in UNION {ToSet(Decls[p]) : p \in Packages}} :
       /\ \A n, m \in admins : n = m
       /\ group = {Gives(n, 1, {}) : n \in admins}
       /\ passwd = {[name |-> n, uid |-> 1, gid |-> 1] : n \in admins}
       /\ shadow = admins
  /\ default \in [Targets -> {"none", "admin"}]
  /\ tx = NoTx /\ called = {} /\ was = {} /\ ran = {}
  /\ outdated = FALSE /\ vetoed = FALSE /\ cut = FALSE /\ lost = FALSE
  /\ commands = 0 /\ faults = 0

Terminating == tx.pc = "idle" /\ commands = MaxCommands /\ UNCHANGED vars

Next ==
  \/ \E kind \in {"install", "remove"}, S \in SUBSET Packages : Begin(kind, S)
  \/ RunPre \/ Fetch \/ Unpack \/ AfterRecord
  \/ Declares \/ EnsureGroup \/ AppendPasswd \/ AppendShadow \/ AddMembership
  \/ Copies \/ CopyDefault
  \/ Uninstall \/ RefreshCaches \/ RunPost \/ Finish
  \/ Kill \/ Terminating

Spec == Init /\ [][Next]_vars

(***************************************************************************)
(* Properties.                                                             *)
(***************************************************************************)
(* A hook that may stop a transaction and fails stops it with the machine  *)
(* as it was (txhooks.rs: "before a single file has been written").  And   *)
(* what was bracketed before is bracketed after: when the post hooks of a  *)
(* transaction have all run, one without a package or path trigger has run *)
(* if a pre hook for the same operations did - also when every package of  *)
(* an install is by then installed - and none the administrator emptied.   *)
Unconditional(h) == h.packages = {} /\ h.paths = {}
Bracketed ==
  /\ vetoed => installed = was /\ called = {}
  /\ \A n \in ran : hookdirs[n][2].file # "empty"
  /\ (tx.pc = "post" /\ tx.hooks = {}) =>
       \A n \in ran, m \in HookNames :
         (/\ IsHook(Loaded(m)) /\ Unconditional(Loaded(m)) /\ Unconditional(Loaded(n))
          /\ Loaded(n).when = "pre" /\ Loaded(m).when = "post" /\ Loaded(n).ops = Loaded(m).ops)
           => m \in ran

(* The account files agree with each other at every step, so that a kill   *)
(* between two of them leaves no user without its group: every user's      *)
(* group is there unless the rewrite of /etc/group was cut short, its      *)
(* shadow entry unless something was, and an id is shared only where a     *)
(* package pinned it.                                                      *)
Pinned == {l.spec.id : l \in {k \in UNION {ToSet(Decls[p]) : p \in Packages} : k.spec.by = "number"}}
AccountsAgree ==
  /\ \A u \in passwd :
       /\ u.gid \in Gids \/ lost
       /\ u.name \in shadow \/ cut \/ (tx.pc = "shadow" /\ Line.name = u.name)
  /\ \A u, v \in passwd : (u # v /\ u.uid = v.uid) => u.uid \in Pinned \cup {0}
  /\ \A g, h \in group : (g # h /\ g.id = h.id) => g.id \in Pinned \cup {0}

(* A package whose installation ran to its end has its accounts and whole  *)
(* defaults, whatever was installed before it and however often ("the fix  *)
(* lands on the operator, who was promised the installation would do it"), *)
(* and the desktop's caches index what is on disk - unless a step of a     *)
(* transaction failed or was killed. A membership counts if the package    *)
(* declares the group before it: of a group that another makes later, no   *)
(* line is applied again.                                                  *)
DeclaresFirst(p, i) ==
  \E j \in 1 .. (i - 1) : Decls[p][j].kind = "g" /\ Decls[p][j].name = Decls[p][i].group
Applied(p, i) ==
  LET l == Decls[p][i] IN
  CASE l.kind = "u" -> Named(passwd, l.name) # {}
    [] l.kind = "g" -> Named(group, l.name) # {}
    [] OTHER -> DeclaresFirst(p, i) => \A g \in Named(group, l.group) : l.name \in g.members
Provided(p) ==
  /\ \A t \in Defaults[p] : default[t] \in {"whole", "admin"}
  /\ \A i \in 1 .. Len(Decls[p]) : Applied(p, i)
Provisioned == (tx.pc = "idle" /\ ~cut) => ~outdated /\ \A p \in installed : Provided(p)

====
