# Verification of rvn

rvn is RavenLinux's package manager.  It resolves, downloads, verifies, unpacks
and records packages below an install root, in pacman's formats, and has a
privileged daemon, rvnd, that runs it for people who are not root.  This
directory holds TLA+ models of what is hard to get right and hard to test in it,
the TLC runs that check them on small instances, and theorems TLAPS proves for
every instance.

## Inventory

Paths are relative to `src/src/`.

| component | state | operations | what makes it correct |
|---|---|---|---|
| install transaction (`ops/install.rs`, `extract.rs`, `ops/remove.rs`) | the install root, the local database, the transaction's own sets (plan, held back, installed) | `execute`, `install_from_cache`, `install_archives`, `unpack`, `prune_stale`, `retire_file`, `apply` | one owner per file; a package's files are there; dependencies are met; administrator's edits survive |
| local database (`db/local.rs`, `db/desc.rs`) | a directory per package with `desc`, `files`, `mtree`, `install`; the same records in memory | `load`, `register`, `unregister`, `set_backup_hash` | after a crash a record is the old one, the new one or none, and agrees with the files |
| archive extraction (`extract.rs`) | what was created, spared and replaced so far | `find_conflicts`, `unpack`, `roll_back` | a failed archive leaves nothing it created |
| daemon (`daemon.rs`, `bin/rvnd.rs`, and `via_daemon` in `main.rs`) | a thread per connection, one lock (`BUSY`), the child rvn | `handle`, `decide`, `run_service`, `request` | at most one transaction; every decision audited before anything runs; the client reports what happened |
| authentication (`auth.rs`) | a cache of grants per login session | `Session::of`, `ask`, `Cache::record`, `covers` | nobody is let in without a grant that is recent, of their session, and of this daemon |
| policy (`policy.rs`), audit (`audit.rs`) | a parsed file; an append-only log | `decide`, `write` | the rule a request gets; one line per decision |
| service control (`daemon.rs` `run_service`, `ops/install.rs` `activate_service_templates`) | templates, drop-ins, what raven-init has read and runs | `enable`, `disable`, `start`, `stop`, `restart`; promotion at the end of an install | what a person is told of a service stays true |
| resolver (`resolve.rs`, `provides.rs`) | the plan under construction | `resolve`, `visit`, `repair`, `detect_conflicts` | the plan is closed under dependencies, without conflicts, in dependency order |
| uninstall plan (`remove.rs`) | - | `plan_with`, `broken_by`, `removal_order`, `deletable_files` | nothing that stays is broken; only orphans go along |
| update plan (`upgrade.rs`, `ops/update.rs`, `devel.rs`) | the registry of VCS heads | `candidates`, `outdated` | never a downgrade; a rebuild when the head moved |
| sync databases (`ops/sync.rs`, `db/sync.rs`, `db/index.rs`) | `<repo>.db`, its signature, the "unsigned" marker, the parsed index | `refresh`, `verify_database`, `load_all` | no database is used that failed verification |
| configuration review (`ops/config.rs`) | a file, its `.pacnew`, `.pacorig`, the recorded checksum | keep, accept, merge | no edit is lost, whichever is chosen |
| downloads (`fetch.rs`) | a `.part` file per target | `download_with_mirrors`, `download_optional`, `cached_ok` | a complete file under its final name, or none |
| package cache and rollback (`cache.rs`, `rollback.rs`) | archives, build trees, partial files | `scan`, `plan`, `apply`, `promote`, `find` | what an installed package could be rolled back to is kept |
| transaction hooks, system hooks (`txhooks.rs`, `hooks.rs`, `caches.rs`) | hook files; `passwd`, `group` | `load`, `matching`, `run`; `ensure_user`, `ensure_group` | an abort costs nothing; no id is given twice |
| package and repository builder (`build.rs`, `repodb.rs`, `sign.rs`) | an output directory: archives, `.sig`, the two databases and their links | `rvn build`, `rvn repo-add` | no other machine fetches half a database; it lists the newest of each package; a signature is of the bytes beside it |
| version order (`version.rs`, `pkg.rs`) | - | `vercmp`, `satisfied_by` | a total preorder of finished releases |
| per-user prefix (`config.rs`), the parsed index (`db/index.rs`) | a user's copies of the databases; one index entry per database path | `use_prefix`, `prefer_fresher_copy`, `load`, `store` | no reader sees a database that is not there any more, or an older one than it had to |
| integrity, signatures, scriptlets, AUR client | - | - | modelled by their outcomes, inside `Store`, `Aftermath` and `Planner` |
| parsers, queries, interface | - | - | see `PROJECT.json` for why each is left out |

How they interact.  A command is a process: it loads the configuration, the sync
databases and the local database, resolves a plan, runs the pre-transaction
hooks, downloads, verifies, and then works one archive at a time through
conflicts, extraction, pruning and the record; AUR packages are built and
installed one at a time after the repository's; replaced packages are retired at
the end.  Nothing is undone across archives, so a failure leaves whatever was
finished.  rvnd accepts a connection per request on a thread of its own, decides
who may do what (which may ask ravend for a password), and runs `rvn` as a child
whose output is the connection itself.  Processes share the install root, the
database and the cache without a lock between them: rvnd's is inside rvnd.

What is hard: the order of files, records and hand-overs inside one transaction;
failures and crashes between any two of those steps; files edited by an
administrator between or during transactions; the iteration order of hash maps
deciding which owner or provider is found; and in the daemon, threads that race
for one lock, cached grants, and a restart while a child still runs.

## Plan

1. `InstallTx`: the transaction, from resolve to retire; proofs of ownership,
   presence of files, records and edits.  *Done.*
2. `Rvnd` with `Broker`: the daemon's threads, lock, cache and children, its
   clients, and what it promises them as an abstract specification; liveness of
   answers; proofs of mutual exclusion and of the refinement.  *Done.*
3. `Review`: `rvn config` beside a transaction, with a record as the directory of
   files it is.  *Done.*
4. `Resolver` and `Planner`: the pure algorithms, under commands in a row.  *Done.*
5. `Store`: refresh, cache, build tree, rollback's choice, clean.  *Done.*
6. `Services`: service verbs and the end of an install, with raven-init.  *Done.*
7. `Aftermath`: hooks, accounts, defaults and caches around a transaction.  *Done.*
8. `Extract`: one archive, entry by entry, with its rollback.  *Done.*
9. `Version`, `Build`, `Repository`: the builder's side.  *Done.*
10. `Index`: databases as they are read.  *Done.*
11. Proofs of what the runs check, for every instance: everything in them but
    `Planner`'s properties and the two about liveness.  *Done.*
12. Left: that `Extract` implements the one step `Unpack` that `InstallTx` has of it.

How the modules hang together.  `InstallTx` sees a transaction as a whole; three
modules take apart what it has as one: `Extract` its `Unpack`, `Review` the directory
a record is, `Aftermath` what comes around it.  `Planner` takes the place of its
`Resolvable` plan.  `Rvnd` has a child and a service verb as one step each;
`Services` takes the verb apart.  `Store` says where the archives and databases
come from that the others take as given, `Index` how a database is read, and
`Repository` how it came to be on the mirror; `Build` computes the archives that
`MCExtract` also unpacks.

## InstallTx

**State.** `disk`, `pacnew` and `pacsave` are what stands at a path and beside
it.  `rel`, `hash` and `list` are the local database: the release whose `desc` is
there (it stands for all of it but the BACKUP checksums), those checksums, and the
file list, a file of its own.  The rest is the transaction's:
`plan` and `replacing` are fields of `Plan`; `fresh` and `skipped` are `Batch`'s
sets; `batch`, `takes` and `held` belong to one `install_archives` call; `cur`,
`protected` and `kept` to the archive in hand; `leaving` to a removal.  `phase`
says where the process stands.  `suspect`, `owed`, `lost` and `mishaps` are history
that only properties read (and `mishaps` bounds failures).

**Actions.** `Resolve` and `Rollback` start a transaction, `Uninstall` a removal.
`CheckConflicts`, `HoldAlong` and `SettleHeld` are the first half of
`install_archives`: conflicts on disk and between archives, hand-overs, and the
rounds that hold back what goes along with something held.  `Prepare`, `Unpack`
(or `UnpackFails`), `Prune`, `Register`, `WriteDesc` and `WriteList` are its second
half, for each archive.  The last three are `LocalDb::register`: the record of the
previous version goes, then the new `desc` is written, then the list.  Which archive
is next is `NextOf`: those from a repository come in the resolver's order, those of
one build in the order of their file names (`FileRank`), whoever needs whom.
`SkipAur`, `BuildFails` and `Builds` are the AUR loop.  `FinishRetiring`,
`RetireFiles` and `Unregister` retire what was replaced, or uninstall.
`Interrupted` is an error returned by `?`, or the death of the process, and
`RecordStops` what these leave of a record that was being removed or written: a
`desc` without its list, or with a part of it.
`AdminEdits` is the administrator, between transactions or, where
`EditsDuringTx`, at any moment.

**Abstractions.** Bytes are compared, never read, so a content also stands for
its checksum.  Directories are left out except a populated one in the way
(`Obstacle`).  The resolver is replaced by any plan closed under dependencies
(`Resolvable`): what it chooses is for a module of its own.  Where the code looks
an owner or provider up in a `HashMap`, `Draws` lets it be any candidate, the
same one throughout the call.  A torn write is `Torn`; a torn `desc` is one that does
not load, which the loader steps over (one cut behind its name would load with the
rest missing, and is left out).  The checksums that `WriteDesc` records are read just
before `register` in the code; no step in between touches a file of the package's.
Scriptlets, hooks, service definitions and `--nodeps` are left out; so are held
packages and orphans.

**Properties and runs.** Both runs are of `MCInstallTx`, whose catalogues give
packages, releases, paths and initial disks.

| run | shows |
|---|---|
| `handover` | `OneOwner`, `RetiredUnlessFailed`, `FilesPresent`, `DependenciesMet`: five packages, seven releases, files that move between them, packages (one from the AUR) that replace another, a split build whose first archive needs its second, a directory in the way that holds one back, and one failure or crash at any point. |
| `config` | `ShippedOnRecord`, `EditsKept`, `AccountsKept`: configuration and account files through install, upgrade, rollback, removal and a failure, edited between transactions. |

`DependenciesMet` does not hold of every catalogue, since rvn does not look at
everything: it warns about, and goes on with, an upgrade that drops a provision
somebody needs, for one.  `Orderly` says of the packages what it takes, in six
conditions: no cycle of dependencies; every release of a package, and whatever
replaces it, provides what the others do; an older release needs no more than a
newer one; nothing in a repository needs something from the AUR; sisters of a
split PKGBUILD have their needs in common, but for one another.  Each of the six is needed - a
catalogue of two or three packages that lacks only that one is enough for TLC to
install something without what it depends on - and together they suffice (see
Proofs).  `MCInstallTx` assumes `Orderly` of its catalogues, so TLC checks it.

Nor does it hold at every step.  There are two gaps, and the property names them
(`Awaited`): a package that is upgraded or reinstalled has no record between
`Register` and `WriteDesc`, and the archives of a split build go in by file name, so
that one may be installed before the sister it needs.  A mishap in a gap leaves it
open: `lost` is what was on its way (`CutOff`), until it is installed after all, and
the property asks nothing of who depends on it.  Everything else a failure or a crash
may do is covered: dropping the closure over what is held, the resolver's order, the
removal order, the refusal of `Uninstall` or `Stranded` each makes TLC find a package
without what it needs, and so does dropping either gap from the property.

Two more assumptions in the properties are there because the code does not promise
more: `RetiredUnlessFailed` speaks of transactions without a mishap, since
`execute` returns at the first error and leaves a superseded package installed
beside its successor; and `ShippedOnRecord` is checked with edits between
transactions only, since `WriteDesc` hashes the file on disk a second time and an
edit made after unpacking is recorded as shipped.

**Bounds.** One package (`config`) or five, with up to two releases each, three or four
paths, and one mishap.  A hand-over needs two packages, a chain of hand-overs or a
third party's claim needs three, and an upgrade two releases.  Every property is
about one path and at most two packages at a time, and a second failure meets no
state that the first leaves and a fresh transaction does not already start from.
The theorems below have no bounds at all.

**Fairness.** None: these are safety properties, and `Spec` lets a transaction
stop anywhere.  No run disables the deadlock check.

## Rvnd

**State.** A connection is a client and a phase: the preview a terminal shows
first (`--dry-run`), or the request itself.  `client` is where an rvn command
stands in `via_daemon` and `request`.  `thread` is the point `handle` has reached
for a connection, `session` and `decision` what it has found out, `outcome` the
last word on the stream that `request` counts (`done`, `failed`, or `exit` where
nothing was said).  `child` is the `rvn --json --yes` run for it: at work
(`running`, then `committed` or `aborted`), or gone after saying so (`exited`), or
without (`cut` if it had committed, else `died`); a service verb that was carried
out is `served`.  `busy` is the holder of `BUSY`, `left` is `AUTH_CACHE`.  `log` is
the set of connections an audit line was written for, and `agreed`, which only a
property reads, when each session's owner last agreed.

**Actions.** `Start`, `Confirm`, `Cancel` and `SeesEnd` are the client; it may
die (`Dies`), and root's rvn works without a daemon (`StartAsRoot`).  A thread goes
through `Read`, `Decide`, `Granted` or `NotGranted` or `TimesOut`, `Audit`, then
`Service`, or `Lock` (or `Busy`), `Spawn` (or `CannotSpawn`), `Reap`, `Release` and
`Close`.  The child holds the connection as its stdout, so a stream is open until
both have let go of it (`Open`): that is how `request` waits for a transaction
whose rvnd has died.  `Works` and `Reports` are the child, `Killed` its sudden end;
`Crash` and `Restart` are rvnd's, and end neither children nor clients.  `Tick`
moves the clock the cache is read against.

**Abstractions.** A request is its class (`Class::of`) and whether it can be read
at all; a peer whose credentials cannot be read goes with the latter.  Package
names, arguments and events other than the last word are left out, and so are
probes (a connection that says nothing, which `handle` drops at once).  What the
child does is `InstallTx`'s matter.  A service verb is one step.  The session of
a client that is gone cannot be found; that its pid may be another process's by
then is left out.

**Broker** is what client and daemon promise together: transactions begin,
commit, end; they do not overlap where `Exclusive`; and a user is told the
outcome once, after the end, "ok" only of what committed.  `Rvnd` implements it
(`Promise`), with `Exclusive` where rvnd is not restarted and root does not work
beside it.  Where that does not hold, transactions do overlap (see Findings), but
nobody is told anything false or early.

| run | shows |
|---|---|
| `clients` | `OneAtATime`, `NeverInItsOwnWay`, `OnlyOnAgreement`: a terminal, a front-end and a settings panel, of one person in two sessions, under the shipped policy. |
| `outage` | `OnRecord`, `Promise`, `Answered`: a policy that asks for everything, a machine that cannot ask, a request that is none, root's own rvn, clients and children that are killed, and a restart.  Each connection ends all the same. |

**Bounds.** Three clients, so that a third party may hold the lock or the cache;
one preview; a cache that lasts one tick, so that it can be fresh or stale; at
most one restart (`MaxRestarts`), after which a state is like that after the first
with other connections.  The theorems have no bounds.

**Fairness.** Weak fairness of each thread's steps, of the child's work and of
the client's reading: they are threads and processes that nothing holds up but
what the model shows.  `Serve` includes `TimesOut` and no answer: ravend and the
person in front of it may never say anything, and it is the deadline on the socket
that ends the wait.  A connect to ravend is taken to return.  The child is
assumed to end; rvn has no question to ask it under `--yes`, and downloads and
builds are taken to end too.  `Restart` is not fair: a rvnd that never comes back
keeps nobody waiting.  Deadlock is not checked: a model with finitely many clients
stops when they are done.

## Review

`rvn config` walks over what waits beside a package's files while a transaction
on the same package may be at work: no lock keeps them apart.  `live`, `pacnew`
and `saved` are a file, its `.pacnew` and its `.pacorig`s; `dirs`, `desc` and
`list` are the record as files.  A transaction is `Begin`, `PlaceFiles`, then the
removal of the old record one file at a time (`DropDesc`, `DropList`, `DropDir`,
which fails if something was renamed into it) and the new one (`WriteDesc`,
`WriteList`).  The review (`desk`) opens on one verb and takes each file through
the checksum (`ReadRecord`, `RenameRecord`), the saved copy and the rename, or an
editor.  Either may die at any step, and one write may fail.  The administrator edits
(`AdminEdits`) at any moment but the one between the copy and what is written over
the file (`swap` and `edit`), which the code cannot tell from the moment before.

Run `desk`: `OriginalsKept` (bytes of the administrator's that a review replaced
are still in a `.pacorig`), `Recorded` (a record a transaction finished is
readable and complete whatever a review did to it), `SettledOnRecord` (what was
settled is known to the next upgrade by its checksum).  Two versions, an account
file and another one, one edit, one mishap: an upgrade, a reinstall and a first
install each meet each step of a review.  A merge's own checksum (see
Findings) is excused in `SettledOnRecord` by the ghost `agreed`.

## Resolver and Planner

`Resolver` is `resolve.rs`, `remove.rs`, `upgrade.rs` and `provides.rs` as
operators over a world `w`: the databases, the AUR, what is installed in the order
a `HashMap` yields it.  `Visit` is the depth-first closure with its stack, seen
list and cycles; `Repair` adds what an installed package lacks; `OutOfDate`,
`Orphans`, `Cascade`, `RemovalOrder` are the other plans.  It is recursive, so TLC
has it and TLAPS has not.  `Planner` gives it a machine: installs, updates (full,
of one package, with or without a refresh), uninstalls with their options,
and dry runs that a person says yes to later, while the mirrors publish and
VCS upstreams move.

Run `commands`: three in a row.  `InstallsWhole` (what was installed or asked for
is whole all the way down; `Obtainable` names what nobody can give),
`DependenciesFirst` (order, but for noted cycles), `RemovalBreaksNothing`,
`SweepSpares` (an orphan sweep spares what was asked for, what is held and what
is needed), `UpdateSettles` (an update leaves nothing for the next one, and spares
namesakes), `InstallsTheShown` (the real run installs what the dry run showed,
unless another command came between or databases were synced).  A chain that goes
wrong needs an install, something that changes why it is there, and a removal or
an update: three commands.  Versions here are numbers and a dependency the set of
versions it admits; `Version` is their order.

## Store

One package, from a repository or the AUR, and everything on disk between
commands: the database with its seal and level, the archives with their
signatures and partial files, the build tree.  A refresh puts the database in
place before its verdict (`Refresh`, `VerifyDatabase`); an install reuses or
downloads, verifies, installs and clears the cache; a build pulls, makes,
collects and retains; a rollback chooses the newest older archive; `rvn cache
clean` looks, asks, rescues, retires and sweeps beside all that.  `Killed` ends
the transaction or the clean at any step.

Run `shelf`: `InstalledIsGenuine` (nothing damaged or unsigned is installed
through a `Required` repository, whatever the cache held), `DatabaseSealed` (a
database a command reads carries what the level asks, but after the administrator
raised the level and before the next refresh, or a kill in mid-refresh),
`CleanSpares` (a clean leaves the installed version, what an install beside it has
just put in, and what it said it keeps).  Two versions make one older and one
newer; three commands are an install, an upgrade and a rollback; `--keep` of 0
and 1.

## Services

The drop-ins and templates as files that may be half-written, raven-init as a
process that knows what it could read at boot or reload, rvnd's threads and the
end of an install as threads without a lock.  `EnsureDefined` copies a template
that is missing (`CopyCreate`, `CopyWrite`), `VerbReload`, `VerbEnable`,
`VerbStop`, `VerbAct` are `run_service`; `Consider`, `InstallCopy`, `LoadUnread`,
`Load`, `Serve` are `activate_service_templates`.

Run `switches`: `KeptWord` (what a person was told of a service holds until the
next verb), `TurnsOn` (a verb alone fails only for a reason outside rvn), `ComesUp`
(liveness: a service shipped enabled comes up).  Weak fairness of the install's
steps and of each verb's: threads of running processes, and the sockets have
timeouts (`Silent`).  One service (they share nothing), two verbs, one install,
one each of kill, timeout and failed write.  Deadlock is checked.

## Aftermath

What surrounds the files: pre and post hooks with directories of the package's
and the administrator's, per package its scriptlet, accounts and defaults, and
the caches once at the end.  `/etc/passwd`, `/etc/shadow` and `/etc/group` are
written one after the other, so a kill falls between them; what is left of the
plan, and of the hooks that matched, are sets worked off in the plan's order and by
file name (`First`, `NextHook`); `lines` is the walk
over `sysusers` declarations, ids are drawn from the top of a range that may be
used up.

Run `around`: `Bracketed` (a veto costs nothing; what was bracketed before is
bracketed after), `AccountsAgree` (the account files agree at every step, and no
id is drawn twice), `Provisioned` (what was installed to the end has its accounts,
its defaults and fresh caches).  Three ids for four lines, so that they run out;
six sets of hook files, each a way the two directories may disagree; two faults.

## Extract and Build

`Extract` is `unpack`: the pre-flight (`FindConflicts`), then each entry with its
parent directories, spared configuration, links, hard links in a second pass; a
failure, and the rollback in its order.  `disk` is a tree with symlinks that are
followed; `created` is the vector the rollback sorts, as a set whose records come
off in the order of the sort (`UndoBefore`).  `Blocked` has every reason for which an
entry cannot be written, `InPlace` every one for which it need not be.  `Build`
computes the entries `rvn build` writes from a manifest.

Run `unpack`: `TakenBack`, `ConfigurationWins`, `Foreseen`, `LaidOut`, over
twenty-three archives and roots chosen so that every kind of entry meets every kind
of thing in its way, with one failing write and two paths another process makes;
`MCExtract` also states that what `Build` makes of a manifest unpacks as the
manifest says (`BuildsWhatUnpacks`).  The excuses in `Foreseen` and `TakenBack` are
listed under Findings.

The theorems are about any archive and root, and name what they take of the two:

- `Tidy`: no path on the way to an entry, a hard link's source or a configuration
  file is a symlink, or is put there by the archive as anything but a directory; no
  two entries have one path; and nothing is shipped at a `.pacnew`.  Without it two
  spellings name one file, and the rollback's order, which counts the steps of a
  path as it is spelled, no longer takes the deeper one first.
- `Steady`: a hard link names a regular file of the archive, and a directory entry
  that meets a symlink keeps what it points to.
- `Expected`: where a `.pacnew` may land there is no directory.
- `Settled`: what a spared file is compared with is not written later.

Twenty of the run's scenarios satisfy all four; the other three, a root with
`/lib` as a link that the archive also goes through, a directory of the package's
own that becomes a link beneath another entry, and another process at work below a
link to be, are not tidy and are only model-checked.

## Version and Repository

`Version` is `vercmp` over segments (a word is its rank, separators a number).
`MCRepository` evaluates it on a sample and on the cases `version.rs` tests.
`Repository` is two tools (`rvn build`, `repo-add`) at work in one directory:
archives placed and signed, databases described from separate reads of
each archive (`Scan`, `ReadInfo`, `Hash`; `queue` is worked off in the sorted order,
`Earliest` first), drafted, filled, renamed, linked, sealed; one of them may stop
anywhere.

Run `publish`: `ServedWhole`, `NewestListed`, `SealMatches`.  Archives whose names
sort unlike their versions, one truncated one, three commands: enough for a
rebuild, a build beside an adder, and two adders at once.  The archives carry
finished releases (`Released`: a release, and no separator at the end), which is
assumed of them and checked.

## Index

`place` and `file` are the databases as inodes under names; `entry` the index;
`exe` the build of rvn installed.  A check (`Readers`) loads the system's
databases and then, if `UserCopyIsFresher`, the user's: per repository a stamp
by path (`Look`), the entry (`Load`), the handle with its own stamp (`Open`), the
parse and the entry it leaves (`Parse`).  `Seeders` are `--user` commands that
copy what the user's directory lacks, in place.  Beside them databases arrive,
are refused, rvn is upgraded, processes end, the power is cut.

Run `reads`: `ReadsWhatStood` (what is read is what the file of that name held,
parsed by the reader's own build) and `NeverOlder` (a check shows no repository
older than the system's copy was, and misses none).  Two repositories, so that
one copy can be ahead in one and behind in the other; three writes make
system, user, system; two upgrades make two replaced builds.  One reader runs at
a time: another one's entries are those the first could have left before, but for
a seed written over a file in place while both have it open, and the theorems
below are for any number of readers.  `stood`, which only the properties and their
invariant read, is what the file in a reader's hand has held since it looked.  The
times of the copies are compared in one step; a seed's target is created after the
check that it is missing, as in the code.

## Where the deadlock check is off

`clients`, `outage`, `commands`, `shelf`, `publish` and `reads` are bounded by a
number of clients, commands, tools or writes, after which nothing is left to do.
The other runs either go on for ever or end in a `Terminating` step that is only
allowed when everything is at rest.

## Proofs

`InstallTxProofs` proves, for every catalogue that satisfies the module's
assumptions:

- `TypeCorrect`: `TypeOK`.
- `OneOwnerOfEveryPath`: `OneOwner`.  The property speaks of the idle state only,
  so the invariant must say what a transaction in flight owes: `SharedInv` says
  that while a path has two owners, one of them is a package of the plan's that
  has still to let go of it, because its new release is in `todo` and does not
  ship the path, or because it is replaced by one of `fresh` and will be retired.
  `PlanInv`, `HoldInv` and `TodoInv` tie the plan, the held set (closed over what
  goes along) and the archives left to install together.
- `ListedFilesPresent`: `FilesPresent`, by `UnpackedInv` (between unpacking and
  the record, the archive's paths are on disk).
- `RecordIsOfWhatWasShipped`: `ShippedOnRecord`, assuming `~EditsDuringTx`.
- `EditedConfigurationKept`: `EditsKept`, under the same assumption.
- `SupersededAreRetired`: `RetiredUnlessFailed`.  `OwedInv` follows a pair through
  the transaction that owes it: it is one of `replacing` with its successor in
  `fresh` until the removals start, and then among what is `leaving`.
- `AccountFilesKept`: `AccountsKept`, assuming `~EditsDuringTx` and that packages
  declare the account files they ship (one that does not replaces them: see
  Findings).  `SparedInv`: while an archive is unpacked, the account files that
  are there are among the `protected`.
- `DependenciesAlwaysMet`: `DependenciesMet`, assuming `Orderly`.  `NeedInv` says of
  each point of a transaction where the needs of what is still to come are met -
  by what is installed, in hand, or to come before; `SuccessorInv` that whoever a
  replaced package satisfies its successor satisfies; `LeaveInv` that what stays
  needs nothing that leaves, and the next to leave is needed by no other.  All of them
  speak of what a package `Had`.  A record's three steps are three cases: `RegisterLeaves`
  says that only the one in hand is missed while its record is away, `DescGives` that
  its new record satisfies whom the old one did, `ListedGives` that it is not awaited
  any more.

`RvndProofs` proves, for any clients, sessions, policy and number of restarts:

- `TypeCorrect`: `TypeOK`.
- `OneTransaction`: `OneAtATime`, assuming no restart and no rvn of root's, without which it
  does not hold (see Findings).  `LockInv` says that `busy` is the one
  thread between taking and dropping the lock, and `ChildInv` that a child at work
  has its thread waiting.
- `KeepsPromise`: `Rvnd` implements `Broker`.  `StreamInv` carries it: an open
  stream's client is still waiting for it or gone, a client has one at most, and
  what it has not asked for yet has no thread and no child.  Each action is mapped
  to a step of `Broker` or a stutter.
- `OwnPreviewReleased`: `NeverInItsOwnWay`, from the same invariant.
- `CachedAnswersAreFresh`: `OnlyOnAgreement`.
- `RecordedFirst`: `OnRecord`, from what is on record at each point of a thread.

`ReviewProofs` proves, for any files, versions, edits, mishaps and copies:

- `TypeCorrect`: `TypeOK`, with `StepInv` (a step has the file or version it works on).
- `FinishedRecordStays`: `Recorded`, by `RecordInv` (a record that lacks only its
  list belongs to the transaction about to write it).
- `SettledStaysOnRecord`: `SettledOnRecord`.  `SettledInv` adds what a review carries:
  the checksums it read and would write back are those another verb settled, or a
  second directory's record has them.
- `OriginalsAreKept`: `OriginalsKept`, by `OriginalInv` (between the copy and what
  writes over the file, the copy is there).

`StoreProofs` proves, for any versions, levels, `--keep` values, commands and kills:

- `TypeCorrect`: `TypeOK`.
- `DatabaseIsSealed`: `DatabaseSealed`, which is inductive with `StepInv`.
- `InstalledGenuine`: `InstalledIsGenuine`, by `GoodInv`: what is about to be
  installed has passed its checksum, what was built is whole, and nothing fetched
  from a repository ever lies in a build tree.
- `CleanNeverTakes`: `CleanSpares`, an action property.  `PathInv` (one archive per
  path), `AgeInv` (nothing on disk is newer than the database), `LaterInv` (what is
  about to be retired is older than what an install beside the clean can bring) and
  `QuietInv` (an undisturbed clean finds what it planned with) carry it.

`RepositoryProofs` proves, for any tools, command lines, archives and stops:

- `DatabaseServedWhole`: `ServedWhole`.  `DraftInv` follows the handles: a draft two
  tools have open is marked as shared, and who still writes into a file that was
  renamed under it writes into one so marked.
- `SignaturesMatch`: `SealMatches`, by `SealInv` (what gpg has read is what it is about
  to sign, unless new bytes came and made it suspect) and `DbInv` (who is past the
  database has left one).
- `NewestIsListed`: `NewestListed`, where the readable archives carry finished
  releases.  `ListInv` says what a tool has collected half-way through the
  archives, `OwnInv` that a draft nobody else opened is of the tool about to rename it.
- `VercmpOpposite`: any two versions compare the same from either side, so that of
  two releases at most one is newer.  `LeastIsThere` gives the first segment that
  differs: a least member of a set of naturals, by the well-foundedness of strict
  inclusion.
- `VercmpTransitive`: among finished releases the order is transitive.  Part against
  part it is a dictionary's (`Precedes`), with the end of a part as one more letter:
  above the words that follow with no separator between, below everything else.  A
  part that ends in a separator fits into no such alphabet, and among versions that
  have one, or no release, the order is not transitive (see Findings); with the
  three named there TLC finds `NewestListed` violated.

`ServicesProofs` proves, for any services, clients, requests, kills and silences:

- `TheWordIsKept`: `KeptWord`.  `WordInv`: a service somebody has a word for is one
  no other thread has in hand; `VerbInv`: what a verb has done when it sends its last
  request.
- `LoneVerbsTurnOn`: `TurnsOn`.  `BroughtInv` says step by step what a lone verb has
  brought about of what its next step needs, `FileInv` what the files may hold,
  `SilentInv` that nobody has been told anything yet.

`IndexExtractProofs` holds the proofs of two components that have nothing else in
common.  It proves, for any repositories, readers, seeders and upgrades:

- `NothingStaleIsRead`: `ReadsWhatStood`, and `NothingOlderIsRead`: `NeverOlder`.  Of
  the shelf: no two states of a file share a time, and a user's copy that is not
  the older one by time is not the older by content.  Of the index: an entry with
  the time of a file has its content.  Of a reader: every entry with the stamp it
  took is of something its file has held since (`GripOK`), and what it set out with
  is no newer than any copy it may still read (`BaseOK`).

and for any archive, root, failing writes and other processes:

- `RootStaysTree`: where the job is `Tidy`, the root is a tree at every step of the
  extraction and the rollback (`Base`, with no symlink on the job's ways).
- `UnpackTakesBack`: `TakenBack`, where `Tidy`.  `UnpackInv` says what a run in flight
  owes: a path that was free is recorded, another process's, or (once something
  failed) excused (`NewOK`); a record is of something this run put there, below
  directories that are there (`CreatedOK`); and a directory a link displaced has the
  record that will bring it back (`KeptOK`).  That a directory comes off only after
  what is in it follows from the sort, and from a prefix being shorter.
- `ConfigurationIsKept`: `ConfigurationWins`, where `Tidy`; part of the same invariant,
  because a rollback keeps configuration for what the records are of.
- `FailureIsForeseen`: `Foreseen`, where `Tidy`, `Steady` and `Expected`.  `ForeOK` says
  of a run nobody disturbs that every condition the pre-flight looked at still
  stands, although the entries before have changed the root since (`WaysFree`,
  `FoldersFree`, `SolidFree`), and of one that failed which entry it was (`Culprit`).
- `EveryEntryIsLaidOut`: `LaidOut`, where `Tidy`, `Steady` and `Settled`.  `LaidOK` says of
  every entry done that it lies as shipped or as kept, and that no entry still to come
  lands on it, on what it was compared with or on what it links to (`Safe`, `Sure`).

The actions are many and the invariants long, so the argument goes by effect: each
action is shown once to have one of seven effects on the tree and the records
(`MakesDirs`, `PutsNode`, `CutsNode`, `Tears`, `TearsDirs`, `Undoes`, `Intrudes`) or none,
and each invariant is shown to survive each effect.

`AftermathProofs` proves, for any packages, accounts, defaults, hooks and faults:

- `HooksBracket`: `Bracketed`, by `HooksOK` (what ran and is still to run is what
  matched this transaction).
- `TheAccountsAgree`: `AccountsAgree`, by `AccountsOK`: a user's group is there before
  the user, the user before its shadow entry; an id is drawn from what is free.
- `WhatIsInstalledIsProvidedFor`: `Provisioned`, by `ProvidedOK`: everything installed
  is provided for but the package at hand, and of that one what is behind the line
  and the default it has reached.

Only model-checked: `Answered` and `ComesUp`, which are about fairness; the
properties of `Planner`, whose plans are recursive; and those of `Extract` for archives
and roots that are not `Tidy`, `Steady`, `Expected` or `Settled` as the theorem asks.

Out of the prover's reach, and left to TLC wherever they come up: liveness and
ENABLED, induction over data (so what `Resolver` computes), and modules with
RECURSIVE operators (`Resolver`, `Planner`).

## Findings

Where the code and its documentation part, or where a property had to make an
exception, found while modelling.  Lines are those of the code, relative to
`src/src/` (`README` is the repository's).

*Transactions.*  A sibling out of a split PKGBUILD is installed without the
dependency that was held back (`ops/install.rs:444`, comment at 379); the archives of
one build go in by file name (2952), a package before the sister it needs; an upgrade
removes the old record before it writes the new one (`db/local.rs:208`), and rvn that
stops in between leaves a package unrecorded, its files on disk and its dependents
without it (the comment at 178 has it that a torn write of a record "costs nothing");
a replaced
package is retired although its successor does not provide it (492); a payload
that ships an account file without declaring it replaces it (1670, comment at 14);
a second removal overwrites the first one's `.pacsave` (`ops/remove.rs:353`); a
package with a failing `pre` scriptlet is only warned about (`ops/install.rs:1644`:
"so a package can bail out"); an error in the middle of `install_archives` skips
the caches, the templates and the post hooks, and when everything is refused the
pre hooks have run without post hooks; versions that installed dependents ask for
are not checked on an upgrade, and conflicts declared by installed packages, or
with what a rival provides, go unseen (`resolve.rs:559`); an update makes
dependencies explicit (`ops/update.rs:211`), and naming an installed dependency
leaves it one; a dependency under IgnorePkg is skipped without a word.

*Plans and dry runs.*  The real run resolves again and may refresh first, and
under `--yes` nothing is shown a second time (`main.rs:682`, README:45);
`InstallsTheShown` names exactly these two exceptions.  An update's approval shows
candidates only.  `replaces` is matched through provides.

*Daemon.*  A restarted rvnd lets a second rvn run beside its predecessor's child
(`daemon.rs:598`, README:55), as does root's own rvn; service verbs never send
`done`, so the client reports a success as a failure (1245, 1036); `disable` says
"is stopped" though the stop's result is dropped (1111); a torn drop-in is taken
for a whole one (1156), an install overwrites a drop-in a verb made meanwhile
(`ops/install.rs:1927`), and "will start at boot" is lost with it; a link to
`/dev/null` does not mask a shipped hook (`txhooks.rs:332`).

*Accounts.*  A kill between `passwd` and `shadow` leaves a user that no later
install completes; `add_membership` truncates `/etc/group`; an `m` line before its
group is dropped.

*Review.*  A merge records the checksum of the `.pacnew` after the editor had it
open (`ops/config.rs:748`); two reviews at once can pick the same `.pacorig`
(807); a reinstall writes over the live `desc` in place (`db/local.rs:285`).

*Store.*  A refused refresh removes the database, after which a rollback asks for
no signature (`ops/install.rs:702`, 726); a killed refresh leaves an unverified
database that is fresh for a day; a keeper that is rescued onto a retired
archive's name is then deleted with it (`cache.rs:598`); `clean --keep 0` beside
an install can delete what was just installed, and `--keep N` counts files;
`collect_artifacts` takes stale archives of the tree; a rollback may install
AUR-built archives (README:663, `policy.rs:187`); `.part` names are shared by two
downloads, and nothing resumes one (README:21).

*Index.*  A build that has been replaced has no stamp, so two replaced builds may
read each other's entries (`db/index.rs:68`): `ReadsWhatStood` excepts them.  The
executable's link is read and the file it names looked at in two calls (70), one step
in the model: where an upgrade comes between the two, the old rvn stamps its entries
as the new one's.  A
seed that a sync of the system's copy crosses gives old contents a newer time, and
one cut short hides its repository from every check until the next sync
(`config.rs:190`): `NeverOlder` excepts both.

*Extraction.*  A file or hard link over an empty directory, and a link over the
package's own populated one, pass the pre-flight and fail mid-write (`Foreseen`);
the torn file of the failing write and half-made directories survive a rollback
("Nothing this run creates survives"), and a `.pacnew` that replaced an earlier one
goes with it (`TakenBack`); a hard link to a spared file links the administrator's
bytes; a hard link removes what it replaces before its missing source is noticed;
a directory created through a symlink of the same archive stays, and of one
directory spelled in two ways the parent may be tried before the child (676);
the rollback's `foreign` exempts the package itself, the pre-flight also those it
replaces (`ops/install.rs:1657`), so that an empty directory of a replaced package's
that a link displaced is not put back (comment at `extract.rs:678`); a directory at
`conf.pacnew` is not seen before the write fails (`Expected`); spared configuration
that reads like a link whose target a later entry overwrites is left without its
`.pacnew` (comment at 912, `Settled`).

*Builder.*  A rebuild that is not signed leaves the old `.sig` beside new bytes
(`sign.rs:180` calls that worse than none) and `repo-add` lists it; so does a stop
between rename and signing; `repo-add --no-sign` leaves the database's; two adders
share one staging name and can serve half a database (`repodb.rs:445`), or the
later one an older list; the fetched name is missing between unlink and link, and
`.db` and `.files` change one after the other; an archive rebuilt between the
reads that describe it gets the old listing with the new hash; a manifest may name
a symlink where it also ships files.  Versions of which one ends
in a separator are not ordered transitively (1.0..a < 1.0. < 1.0.1 < 1.0..a; then
what `repo-add` lists depends on how the archives sort), and a version without
release equals every release of it.

## What the properties excuse

Some hazards are listed with a property that sees only half of them; the other half
is in the model, happens in its runs, and is excused by name, because the code does
not prevent it.  `DependenciesMet` excuses what a mishap cut off between an old record
and its new one, or between two archives of one build (`lost`).  `KeptWord` speaks of
a verb nobody interferes with, and `TurnsOn` of drop-ins written whole, so that two
verbs at once and a kill within a verb are not theirs.  `AccountsAgree` excuses a kill
between two account files and a truncated `/etc/group`, `Provisioned` the packages
before an error.  `NewestListed` excuses archives that changed since the scan,
`SealMatches` those placed and not yet signed, and `CleanSpares` a keeper rescued onto
a retired archive's name.  Each is among the findings above.

## Not modelled

The audit line's wording, the policy file's and every other parser, the AUR's
wire format, the terminal and JSON output, queries and search: no state a
property could be about, or output only.  `PROJECT.json` lists every component
with its status and the reason.  One listed hazard has no property: the checksum
`rvn config` records for a merge is taken after the editor had the file open
(`ops/config.rs:748`); the model has the code's order, and there is no promise in
it to check beyond `SettledOnRecord`, which excuses it.
